---- MODULE Spec2Model ----
(***************************************************************************)
(* ani2xcursor: the binary decoding pipeline.                              *)
(*   - utils::ByteReader                                                   *)
(*   - AniParser / Animation                                               *)
(*   - IcoCurDecoder                                                       *)
(*   - process_ani_file                                                    *)
(*   - RiffReader, InfParser, the conversion loop of main                  *)
(*   - decode_bmp, rescale_cursor                                          *)
(* Each component has its own specification over the shared variables; the *)
(* variables of the other components stay at their idle values.            *)
(***************************************************************************)
EXTENDS Integers, Sequences, FiniteSets, TLC

VARIABLES
    rd_len,     \* ByteReader: data_.size()
    rd_pos,     \* ByteReader: pos_
    rd_last,    \* ByteReader: the last operation and its outcome
    jf_in,      \* jiffies_to_ms: the argument (a uint32_t word)
    jf_out,     \* jiffies_to_ms: the value returned, or NoValue
    ico,        \* IcoCurDecoder: the input buffer
    ico_res,    \* IcoCurDecoder: outcome of decode_all
    ani,        \* AniParser: the input file (children of the RIFF ACON root)
    anim,       \* AniParser: outcome of parse (an Animation or an error)
    call,       \* Animation / converter: the last call on the parsed Animation
    run,        \* main: the conversion loop over the role mappings
    inf,        \* InfParser: the lines of the INF file
    inf_res,    \* InfParser: outcome of parse
    riff,       \* RiffReader: the buffer handed to iterate_chunks
    walk,       \* RiffReader: the walk of iterate_chunks so far
    bmp,        \* decode_bmp: the payload, the directory entry, is_cursor
    bmp_res,    \* decode_bmp: outcome
    scale,      \* rescale_cursor: the source image and the target size
    scale_res   \* rescale_cursor: outcome

rdVars  == <<rd_len, rd_pos, rd_last>>
jfVars  == <<jf_in, jf_out>>
icoVars == <<ico, ico_res>>
aniVars == <<ani, anim, call>>
runVars == <<run>>
infVars == <<inf, inf_res>>
riffVars == <<riff, walk>>
bmpVars == <<bmp, bmp_res>>
scaleVars == <<scale, scale_res>>
vars    == <<rd_len, rd_pos, rd_last, jf_in, jf_out, ico, ico_res, ani, anim, call,
             run, inf, inf_res, riff, walk, bmp, bmp_res, scale, scale_res>>

\* the idle value of a variable, and of a field that holds nothing
NoValue == [kind |-> "none"]

-----------------------------------------------------------------------------
(***************************************************************************)
(* Fixed-width unsigned integers.  A w-bit unsigned value is written as a  *)
(* little-endian sequence of 16-bit digits (2 digits: uint32_t, 4 digits:  *)
(* size_t on the 64-bit target), so that sums and products wrap exactly as *)
(* the C++ arithmetic does.                                                *)
(***************************************************************************)
Digit == 2^16

RECURSIVE ToWord(_, _)
\* the n-digit word of a natural number v (v mod 2^(16n))
ToWord(v, n) ==
    IF n = 0 THEN <<>> ELSE <<v % Digit>> \o ToWord(v \div Digit, n - 1)

U32(v) == ToWord(v, 2)
U64(v) == ToWord(v, 4)

RECURSIVE AddCarry(_, _, _)
\* a + b + c over words of equal length; the carry out of the top digit is lost
AddCarry(a, b, c) ==
    IF a = <<>> THEN <<>>
    ELSE LET s == Head(a) + Head(b) + c
         IN  <<s % Digit>> \o AddCarry(Tail(a), Tail(b), s \div Digit)

WAdd(a, b) == AddCarry(a, b, 0)

RECURSIVE MulCarry(_, _, _)
\* a * k + c for a small factor k; the carry out of the top digit is lost
MulCarry(a, k, c) ==
    IF a = <<>> THEN <<>>
    ELSE LET s == Head(a) * k + c
         IN  <<s % Digit>> \o MulCarry(Tail(a), k, s \div Digit)

WMul(a, k) == MulCarry(a, k, 0)

RECURSIVE DivRem(_, _, _)
\* long division of (r : a) by a small divisor d, most significant digit first
DivRem(a, d, r) ==
    IF a = <<>> THEN <<>>
    ELSE LET n   == Len(a)
             cur == r * Digit + a[n]
         IN  DivRem(SubSeq(a, 1, n - 1), d, cur % d) \o <<cur \div d>>

WDiv(a, d) == DivRem(a, d, 0)

RECURSIVE WLess(_, _)
\* unsigned a < b over words of equal length
WLess(a, b) ==
    IF a = <<>> THEN FALSE
    ELSE LET n == Len(a)
         IN  IF a[n] # b[n] THEN a[n] < b[n]
             ELSE WLess(SubSeq(a, 1, n - 1), SubSeq(b, 1, n - 1))

WGreater(a, b) == WLess(b, a)

\* a word widened by one digit (the value is kept)
Widen(a) == a \o <<0>>

\* the low n digits of a word (the value mod 2^(16n))
Truncate(a, n) == SubSeq(a, 1, n)

\* every digit above the lowest two is 0 and the value is below 2^31
IsSmall(a) ==
    /\ \A i \in 3..Len(a) : a[i] = 0
    /\ (Len(a) >= 2 => a[2] < 2^15)

\* the natural number of a word whose value is below 2^31
ToNat(a) ==
    IF Len(a) = 0 THEN 0
    ELSE IF Len(a) = 1 THEN a[1]
    ELSE a[1] + a[2] * Digit

-----------------------------------------------------------------------------
(***************************************************************************)
(* AniParser::jiffies_to_ms                                                *)
(***************************************************************************)
DEFAULT_JIFFIES == 10

\* (jiffies * 1000 + 30) / 60 in uint32_t arithmetic
jiffies_to_ms(jiffies) ==
    WDiv(WAdd(WMul(jiffies, 1000), U32(30)), 60)

\* the same quotient over the integers: one more digit holds jiffies*1000+30
ExactMs(jiffies) ==
    WDiv(WAdd(WMul(Widen(jiffies), 1000), ToWord(30, 3)), 60)

-----------------------------------------------------------------------------
(***************************************************************************)
(* utils::ByteReader.  pos_ and data_.size() are size_t; they never exceed *)
(* the buffer length, so they are kept as naturals and widened to 64-bit   *)
(* words where the code adds a caller-supplied size_t to them.             *)
(***************************************************************************)
MaxLen == 5

\* SIZE_MAX and SIZE_MAX - 1 of the 64-bit target
SizeMax     == <<Digit - 1, Digit - 1, Digit - 1, Digit - 1>>
SizeMaxLess == <<Digit - 2, Digit - 1, Digit - 1, Digit - 1>>

\* the size_t arguments a caller passes
Counts == {U64(n) : n \in 0..(MaxLen + 1)} \cup {SizeMax, SizeMaxLess}

\* check_remaining(need): TRUE when it returns, FALSE when it throws
check_remaining(pos, need, size) ==
    ~ WGreater(WAdd(U64(pos), need), U64(size))

\* seek(pos): the guard of the throw
seek_ok(p, size) == ~ WGreater(p, U64(size))

\* skip(count): the guard of the throw
skip_ok(pos, count, size) ==
    ~ WGreater(WAdd(U64(pos), count), U64(size))

\* pos_ += count in size_t arithmetic
advance(pos, count) == WAdd(U64(pos), count)

\* the true (unbounded) sum pos + n compared with the buffer length
Fits(pos, n, size) ==
    ~ WGreater(WAdd(Widen(U64(pos)), Widen(n)), Widen(U64(size)))

Op(name, arg, pre, outcome, got) ==
    [kind |-> "op", op |-> name, arg |-> arg, pre |-> pre,
     outcome |-> outcome, got |-> got]

Span(off, cnt) == [kind |-> "span", off |-> off, cnt |-> cnt]

InitReader ==
    /\ rd_len \in 0..MaxLen
    /\ rd_pos = 0
    /\ rd_last = NoValue
    /\ jf_in = NoValue /\ jf_out = NoValue
    /\ ico = NoValue /\ ico_res = NoValue
    /\ ani = NoValue /\ anim = NoValue /\ call = NoValue
    /\ run = NoValue
    /\ inf = NoValue /\ inf_res = NoValue
    /\ riff = NoValue /\ walk = NoValue
    /\ bmp = NoValue /\ bmp_res = NoValue
    /\ scale = NoValue /\ scale_res = NoValue

Seek(p) ==
    /\ IF seek_ok(p, rd_len)
       THEN /\ rd_pos' = ToNat(p)
            /\ rd_last' = Op("seek", p, rd_pos, "ok", NoValue)
       ELSE /\ rd_pos' = rd_pos
            /\ rd_last' = Op("seek", p, rd_pos, "out_of_range", NoValue)
    /\ UNCHANGED rd_len

Skip(count) ==
    /\ IF skip_ok(rd_pos, count, rd_len)
       THEN /\ rd_pos' = ToNat(advance(rd_pos, count))
            /\ rd_last' = Op("skip", count, rd_pos, "ok", NoValue)
       ELSE /\ rd_pos' = rd_pos
            /\ rd_last' = Op("skip", count, rd_pos, "out_of_range", NoValue)
    /\ UNCHANGED rd_len

\* read_u8 / read_u16_le / read_u32_le / read_i32_le / read_fourcc:
\* check_remaining(n), then the n bytes at pos_, then pos_ += n
ReadFixed(name, n) ==
    /\ IF check_remaining(rd_pos, U64(n), rd_len)
       THEN /\ rd_pos' = rd_pos + n
            /\ rd_last' = Op(name, U64(n), rd_pos, "ok", Span(U64(rd_pos), U64(n)))
       ELSE /\ rd_pos' = rd_pos
            /\ rd_last' = Op(name, U64(n), rd_pos, "out_of_range", NoValue)
    /\ UNCHANGED rd_len

ReadU8     == ReadFixed("read_u8", 1)
ReadU16Le  == ReadFixed("read_u16_le", 2)
ReadU32Le  == ReadFixed("read_u32_le", 4)
ReadI32Le  == ReadFixed("read_i32_le", 4)
ReadFourcc == ReadFixed("read_fourcc", 4)

\* read_bytes(count): check_remaining(count); data_.subspan(pos_, count);
\* pos_ += count.  subspan with a range outside the buffer is undefined: the
\* build either hands out the range as it is or aborts in the library check.
ReadBytes(count) ==
    /\ IF check_remaining(rd_pos, count, rd_len)
       THEN \/ /\ rd_pos' = ToNat(advance(rd_pos, count))
               /\ rd_last' = Op("read_bytes", count, rd_pos, "ok",
                                 Span(U64(rd_pos), count))
            \/ /\ ~ Fits(rd_pos, count, rd_len)
               /\ rd_pos' = rd_pos
               /\ rd_last' = Op("read_bytes", count, rd_pos, "crash", NoValue)
       ELSE /\ rd_pos' = rd_pos
            /\ rd_last' = Op("read_bytes", count, rd_pos, "out_of_range", NoValue)
    /\ UNCHANGED rd_len

NextReader ==
    \/ \E p \in Counts : Seek(p) /\ UNCHANGED <<jfVars, icoVars, aniVars, runVars, infVars, riffVars, bmpVars, scaleVars>>
    \/ \E n \in Counts : Skip(n) /\ UNCHANGED <<jfVars, icoVars, aniVars, runVars, infVars, riffVars, bmpVars, scaleVars>>
    \/ ReadU8 /\ UNCHANGED <<jfVars, icoVars, aniVars, runVars, infVars, riffVars, bmpVars, scaleVars>>
    \/ ReadU16Le /\ UNCHANGED <<jfVars, icoVars, aniVars, runVars, infVars, riffVars, bmpVars, scaleVars>>
    \/ ReadU32Le /\ UNCHANGED <<jfVars, icoVars, aniVars, runVars, infVars, riffVars, bmpVars, scaleVars>>
    \/ ReadI32Le /\ UNCHANGED <<jfVars, icoVars, aniVars, runVars, infVars, riffVars, bmpVars, scaleVars>>
    \/ ReadFourcc /\ UNCHANGED <<jfVars, icoVars, aniVars, runVars, infVars, riffVars, bmpVars, scaleVars>>
    \/ \E n \in Counts : ReadBytes(n) /\ UNCHANGED <<jfVars, icoVars, aniVars, runVars, infVars, riffVars, bmpVars, scaleVars>>

SpecReader == InitReader /\ [][NextReader]_vars

-----------------------------------------------------------------------------
(***************************************************************************)
(* jiffies_to_ms applied to one uint32_t argument.                         *)
(***************************************************************************)
MaxJiffy == 16

\* 4294968 = 65 * 2^16 + 35128 is the least argument whose product with 1000,
\* plus 30, does not fit 32 bits
JiffyLow  == (0..MaxJiffy) \cup {35127, 35128, Digit - 1}
JiffyHigh == {0, 65, Digit - 1}
JiffyInputs == {<<lo, hi>> : lo \in JiffyLow, hi \in JiffyHigh}

Ms(w) == [kind |-> "ms", value |-> w]

InitJiffies ==
    /\ jf_in \in JiffyInputs
    /\ jf_out = NoValue
    /\ rd_len = 0 /\ rd_pos = 0 /\ rd_last = NoValue
    /\ ico = NoValue /\ ico_res = NoValue
    /\ ani = NoValue /\ anim = NoValue /\ call = NoValue
    /\ run = NoValue
    /\ inf = NoValue /\ inf_res = NoValue
    /\ riff = NoValue /\ walk = NoValue
    /\ bmp = NoValue /\ bmp_res = NoValue
    /\ scale = NoValue /\ scale_res = NoValue

Convert ==
    /\ jf_out = NoValue
    /\ jf_out' = Ms(jiffies_to_ms(jf_in))
    /\ UNCHANGED jf_in

NextJiffies == Convert /\ UNCHANGED <<rdVars, icoVars, aniVars, runVars, infVars, riffVars, bmpVars, scaleVars>>

SpecJiffies == InitJiffies /\ [][NextJiffies]_vars

-----------------------------------------------------------------------------
(***************************************************************************)
(* IcoCurDecoder::decode_all.  A buffer is its length, the three header    *)
(* words and the 16-byte directory slots that follow the header; a few     *)
(* payload bytes follow the last slot.  The bytes of an embedded image are  *)
(* named by their range (offset, size); what they hold (PNG or DIB) is the  *)
(* fmt field of the slot that points at them.                              *)
(***************************************************************************)
MaxEntries == 2

\* bytes of the header, of one directory slot, and of the payload area
HeaderBytes == 6
SlotBytes == 16
PayloadBytes == 8

DirEnd(n) == HeaderBytes + n * SlotBytes

U32Max == <<Digit - 1, Digit - 1>>

\* a uint32_t converted to size_t
ToSize(w) == w \o <<0, 0>>

\* (offset, size) pairs of a slot that follows n slots: inside the buffer,
\* one byte beyond its end, and a pair whose 32-bit sum wraps to 0
Ranges(n) ==
    { <<U32(DirEnd(n)), U32(PayloadBytes)>>,
      <<U32(DirEnd(n)), U32(PayloadBytes + 1)>>,
      <<U32Max, U32(1)>> }

DirEntries(n) ==
    { [width |-> d, height |-> d, planes_or_hotspot_x |-> 1,
       bpp_or_hotspot_y |-> b, offset |-> r[1], size |-> r[2], fmt |-> f] :
      d \in {16, 32}, b \in {0, 4}, r \in Ranges(n), f \in {"png", "bmp"} }

Headers ==
    { [reserved |-> 0, type |-> 1], [reserved |-> 0, type |-> 2],
      [reserved |-> 1, type |-> 2], [reserved |-> 0, type |-> 0],
      [reserved |-> 0, type |-> 3] }

\* a buffer: a header, n slots and the payload area
IcoBuffer(h, c, d) ==
    [kind |-> "ico", len |-> DirEnd(Len(d)) + PayloadBytes, header |-> h,
     count |-> c, dir |-> d]

\* a file cut off inside its header
CutOff ==
    [kind |-> "ico", len |-> 4, header |-> [reserved |-> 0, type |-> 2],
     count |-> 1, dir |-> <<>>]

Result(status, error, images, entriesRead, readEnd, decoded) ==
    [kind |-> "result", status |-> status, error |-> error, images |-> images,
     entriesRead |-> entriesRead, readEnd |-> readEnd, decoded |-> decoded]

Failure(error, entriesRead, readEnd) ==
    Result("error", error, <<>>, entriesRead, readEnd, 0)

\* parse_dir_entry(data, index): seek(6 + index*16), then 16 bytes of reads;
\* TRUE when no read throws
parse_dir_entry_ok(data, index) ==
    /\ seek_ok(U64(DirEnd(index)), data.len)
    /\ check_remaining(DirEnd(index), U64(SlotBytes), data.len)

\* select_best_image: the first entry of the largest score w * h * bpp
Score(e) ==
    LET w   == IF e.width = 0 THEN 256 ELSE e.width
        h   == IF e.height = 0 THEN 256 ELSE e.height
        bpp == IF e.bpp_or_hotspot_y = 0 THEN 32 ELSE e.bpp_or_hotspot_y
    IN  w * h * bpp

RECURSIVE BestFrom(_, _, _, _)
\* the loop of select_best_image from index i (0-based) on
BestFrom(entries, i, best, best_score) ==
    IF i >= Len(entries) THEN best
    ELSE IF Score(entries[i + 1]) > best_score
         THEN BestFrom(entries, i + 1, i, Score(entries[i + 1]))
         ELSE BestFrom(entries, i + 1, best, best_score)

select_best_image(entries) ==
    IF entries = <<>> THEN 0 ELSE BestFrom(entries, 0, 0, 0)

\* entry.offset + entry.size > data.size(): the sum is a uint32_t
extends_beyond(entry, len) ==
    WGreater(ToSize(WAdd(entry.offset, entry.size)), U64(len))

\* the true sum offset + size is within the buffer
RangeInside(entry, len) ==
    ~ WGreater(WAdd(Widen(entry.offset), Widen(entry.size)), ToWord(len, 3))

\* decode_png / decode_bmp of the bytes at (offset, size): the image has the
\* dimensions stored with the payload and, for a cursor, the slot's hotspot
DecodeEntry(entry, is_cursor) ==
    [width |-> entry.width, height |-> entry.height,
     hotspot_x |-> IF is_cursor THEN entry.planes_or_hotspot_x ELSE 0,
     hotspot_y |-> IF is_cursor THEN entry.bpp_or_hotspot_y ELSE 0,
     pixels |-> <<entry.fmt, entry.offset, entry.size>>]

\* header_error with the type check letting every non-zero type through
header_error_any_type(data) ==
    IF data.len < HeaderBytes THEN "ICO/CUR: File too small"
    ELSE IF data.header.reserved # 0 THEN "ICO/CUR: Invalid header (reserved != 0)"
    ELSE IF data.header.type = 0
         THEN "ICO/CUR: Invalid type (expected 1=ICO or 2=CUR)"
    ELSE IF data.count = 0 THEN "ICO/CUR: No images in file"
    ELSE IF data.len < HeaderBytes + data.count * SlotBytes
         THEN "ICO/CUR: File too small for directory"
    ELSE ""

\* the header checks of decode_all, in the code's order; "" when all pass
header_error(data) ==
    IF data.len < HeaderBytes THEN "ICO/CUR: File too small"
    ELSE IF data.header.reserved # 0 THEN "ICO/CUR: Invalid header (reserved != 0)"
    ELSE IF data.header.type # 1 /\ data.header.type # 2
         THEN "ICO/CUR: Invalid type (expected 1=ICO or 2=CUR)"
    ELSE IF data.count = 0 THEN "ICO/CUR: No images in file"
    ELSE IF data.len < HeaderBytes + data.count * SlotBytes
         THEN "ICO/CUR: File too small for directory"
    ELSE ""

\* the images decode_all puts in its result, given the directory it parsed
decoded_images(entries, is_cursor) ==
    <<DecodeEntry(entries[select_best_image(entries) + 1], is_cursor)>>

\* decode_all(data): the set of outcomes.  A sub-range outside the buffer is
\* undefined behaviour of span::subspan: the build aborts or decodes whatever
\* lies at that address.
decode_all(data) ==
    LET hdrEnd == IF data.len < HeaderBytes THEN 0 ELSE HeaderBytes
    IN
    IF header_error(data) # "" THEN {Failure(header_error(data), 0, hdrEnd)}
    ELSE IF \E i \in 0..(data.count - 1) : ~ parse_dir_entry_ok(data, i)
         THEN {Failure("ByteReader: insufficient data", 0, hdrEnd)}
    ELSE LET entries   == SubSeq(data.dir, 1, data.count)
             is_cursor == data.header.type = 2
             entry     == entries[select_best_image(entries) + 1]
             dirEnd    == DirEnd(data.count)
         IN  IF extends_beyond(entry, data.len)
             THEN {Failure("ICO/CUR: Image data extends beyond file",
                           data.count, dirEnd)}
             ELSE IF RangeInside(entry, data.len)
                  THEN {Result("ok", "", decoded_images(entries, is_cursor),
                               data.count, dirEnd, 1)}
                  ELSE {Result("crash", "", <<>>, data.count, dirEnd, 0),
                        Result("ok", "", decoded_images(entries, is_cursor),
                               data.count, dirEnd, 1)}

InitIco ==
    /\ \/ \E n \in 0..MaxEntries, h \in Headers, c \in 0..(MaxEntries + 1) :
            \E d \in [1..n -> DirEntries(n)] : ico = IcoBuffer(h, c, d)
       \/ ico = CutOff
    /\ ico_res = NoValue
    /\ rd_len = 0 /\ rd_pos = 0 /\ rd_last = NoValue
    /\ jf_in = NoValue /\ jf_out = NoValue
    /\ ani = NoValue /\ anim = NoValue /\ call = NoValue
    /\ run = NoValue
    /\ inf = NoValue /\ inf_res = NoValue
    /\ riff = NoValue /\ walk = NoValue
    /\ bmp = NoValue /\ bmp_res = NoValue
    /\ scale = NoValue /\ scale_res = NoValue

DecodeAll ==
    /\ ico_res = NoValue
    /\ ico_res' \in decode_all(ico)
    /\ UNCHANGED ico

NextIco == DecodeAll /\ UNCHANGED <<rdVars, jfVars, aniVars, runVars, infVars, riffVars, bmpVars, scaleVars>>

SpecIco == InitIco /\ [][NextIco]_vars

-----------------------------------------------------------------------------
(***************************************************************************)
(* AniParser and Animation.  An ANI file is the validity of its RIFF       *)
(* header, its form type and the chunks iterate_chunks hands to the        *)
(* callback, in file order.  A chunk is its fourcc, its form type (LIST),   *)
(* the size of its data in bytes, the 32-bit words of its data and, for a   *)
(* LIST, its sub-chunks.  Word values and counts stay far below 2^31 and    *)
(* are naturals; they become uint32_t words where the code multiplies.     *)
(***************************************************************************)
MaxSteps == 3
MaxIcons == 3

Chunk(fourcc, form_type, size, words, sub) ==
    [fourcc |-> fourcc, form_type |-> form_type, size |-> size,
     words |-> words, sub |-> sub]

Err(msg) == [kind |-> "error", error |-> msg]
Crash == [kind |-> "crash"]

Max(S) == CHOOSE x \in S : \A y \in S : y <= x

\* what an out-of-bounds read of a std::vector<uint32_t> element yields: some
\* 32-bit value, here a small one and one beyond every frame index
Garbage == {0, 2^20}

\* jiffies_to_ms on a natural, as a natural
ms(jiffies) == ToNat(jiffies_to_ms(U32(jiffies)))

\* read_u32_le at byte position pos of a chunk's data
U32At(chunk, pos) == chunk.words[(pos \div 4) + 1]

\* parse_anih without the check on the frame count
parse_anih_zero_frames(chunk) ==
    IF chunk.size < 36 THEN Err("ANI 'anih' chunk too small")
    ELSE [kind |-> "anih",
          num_frames |-> U32At(chunk, 4),
          num_steps |-> IF U32At(chunk, 8) = 0 THEN U32At(chunk, 4)
                        ELSE U32At(chunk, 8),
          display_rate |-> IF U32At(chunk, 28) = 0 THEN DEFAULT_JIFFIES
                           ELSE U32At(chunk, 28),
          flags |-> U32At(chunk, 32)]

\* parse_anih that keeps a display rate of 0
parse_anih_zero_rate(chunk) ==
    IF chunk.size < 36 THEN Err("ANI 'anih' chunk too small")
    ELSE IF U32At(chunk, 4) = 0 THEN Err("ANI 'anih' reports 0 frames")
    ELSE [kind |-> "anih",
          num_frames |-> U32At(chunk, 4),
          num_steps |-> IF U32At(chunk, 8) = 0 THEN U32At(chunk, 4)
                        ELSE U32At(chunk, 8),
          display_rate |-> U32At(chunk, 28),
          flags |-> U32At(chunk, 32)]

\* parse_anih: the header fields after defaulting, or the error thrown
parse_anih(chunk) ==
    IF chunk.size < 36 THEN Err("ANI 'anih' chunk too small")
    ELSE LET num_frames   == U32At(chunk, 4)
             num_steps    == U32At(chunk, 8)
             display_rate == U32At(chunk, 28)
             flags        == U32At(chunk, 32)
         IN  IF num_frames = 0 THEN Err("ANI 'anih' reports 0 frames")
             ELSE [kind |-> "anih",
                   num_frames |-> num_frames,
                   num_steps |-> IF num_steps = 0 THEN num_frames ELSE num_steps,
                   display_rate |-> IF display_rate = 0 THEN DEFAULT_JIFFIES
                                    ELSE display_rate,
                   flags |-> flags]

\* the smaller of two naturals
Min2(a, b) == IF a < b THEN a ELSE b

\* parse_rate / parse_seq: the first min(size/4, num_steps) words
parse_rate(chunk, num_steps) ==
    SubSeq(chunk.words, 1, Min2(chunk.size \div 4, num_steps))

parse_seq(chunk, num_steps) ==
    SubSeq(chunk.words, 1, Min2(chunk.size \div 4, num_steps))

Frame(icon_data, delay_ms) == [icon_data |-> icon_data, delay_ms |-> delay_ms]

RECURSIVE parse_frames(_)
\* parse_frames: one frame per "icon" sub-chunk, in file order, delay 0
parse_frames(sub) ==
    IF sub = <<>> THEN <<>>
    ELSE IF Head(sub).fourcc = "icon"
         THEN <<Frame(Head(sub).icon, 0)>> \o parse_frames(Tail(sub))
         ELSE parse_frames(Tail(sub))

\* the first loop over the frames: rates[i] if i < rates.size(), else the default
frame_delays(frames, rates, default_delay) ==
    [i \in 1..Len(frames) |->
        Frame(frames[i].icon_data,
              IF i - 1 < Len(rates) THEN ms(rates[i]) ELSE default_delay)]

RECURSIVE step_delays(_, _, _, _, _)
\* the second loop, from step on: frames[sequence[step]].delay_ms =
\* jiffies_to_ms(rates[step]).  sequence[step] with step >= sequence.size()
\* is an out-of-bounds vector read: it yields some value or the run aborts.
step_delays(frames, sequence, rates, num_steps, step) ==
    IF ~ (step < num_steps /\ step < Len(rates))
    THEN {[kind |-> "frames", frames |-> frames, oob |-> FALSE]}
    ELSE LET inside == step < Len(sequence)
             idxs   == IF inside THEN {sequence[step + 1]} ELSE Garbage
             write(idx) ==
                 IF idx < Len(frames)
                 THEN [frames EXCEPT ![idx + 1].delay_ms = ms(rates[step + 1])]
                 ELSE frames
         IN  UNION { { IF r.kind = "crash" THEN r
                       ELSE [r EXCEPT !.oob = r.oob \/ ~ inside] :
                       r \in step_delays(write(idx), sequence, rates,
                                         num_steps, step + 1) } :
                     idx \in idxs }
             \cup (IF inside THEN {} ELSE {Crash})

IsAnih(c) == c.fourcc = "anih"
IsRate(c) == c.fourcc = "rate"
IsSeq(c)  == c.fourcc = "seq "
IsFram(c) == c.fourcc = "LIST" /\ c.form_type = "fram"

\* the branch of the chunk callback a chunk takes
Slot(c) ==
    IF IsAnih(c) THEN "anih"
    ELSE IF IsRate(c) THEN "rate"
    ELSE IF IsSeq(c) THEN "seq "
    ELSE IF IsFram(c) THEN "fram"
    ELSE "ignored"

\* the chunk the callback stored last in a slot, or <<>>
Stored(chunks, slot) ==
    LET at == {i \in 1..Len(chunks) : Slot(chunks[i]) = slot}
    IN  IF at = {} THEN <<>> ELSE <<chunks[Max(at)]>>

Animation(frames, sequence, hdr, oob) ==
    [kind |-> "animation", frames |-> frames, sequence |-> sequence,
     num_frames |-> hdr.num_frames, num_steps |-> hdr.num_steps,
     display_rate |-> hdr.display_rate, flags |-> hdr.flags, oob |-> oob]

\* parse_impl(data): the set of outcomes (an Animation, an error, an abort).
\* oob records that the parse read sequence[] beyond its end.
parse_impl(data) ==
    IF ~ data.valid THEN {Err("Invalid RIFF file")}
    ELSE IF data.form_type # "ACON"
         THEN {Err("Not an ANI file: expected RIFF ACON")}
    ELSE LET anih_chunk == Stored(data.chunks, "anih")
             rate_chunk == Stored(data.chunks, "rate")
             seq_chunk  == Stored(data.chunks, "seq ")
             fram_list  == Stored(data.chunks, "fram")
         IN
         IF anih_chunk = <<>> THEN {Err("ANI file missing required 'anih' chunk")}
         ELSE LET hdr == parse_anih(anih_chunk[1]) IN
         IF hdr.kind = "error" THEN {hdr}
         ELSE LET rates    == IF rate_chunk = <<>> THEN <<>>
                              ELSE parse_rate(rate_chunk[1], hdr.num_steps)
                  sequence == IF seq_chunk = <<>> THEN <<>>
                              ELSE parse_seq(seq_chunk[1], hdr.num_steps)
              IN
              IF fram_list = <<>>
              THEN {Err("ANI file missing required LIST 'fram' chunk")}
              ELSE LET found == parse_frames(fram_list[1].sub) IN
              IF found = <<>> THEN {Err("ANI file contains no frames")}
              ELSE LET frames == frame_delays(found, rates, ms(hdr.display_rate))
                   IN  IF sequence # <<>> /\ rates # <<>>
                       THEN { IF r.kind = "crash" THEN r
                              ELSE Animation(r.frames, sequence, hdr, r.oob) :
                              r \in step_delays(frames, sequence, rates,
                                                hdr.num_steps, 0) }
                       ELSE {Animation(frames, sequence, hdr, FALSE)}

\* Animation::get_step_frame(step): the set of outcomes.  sequence[step] with
\* step >= sequence.size() is an out-of-bounds vector read.
get_step_frame(a, step) ==
    IF step >= a.num_steps
    THEN {[kind |-> "error", error |-> "Animation step index out of range",
           oob |-> FALSE]}
    ELSE LET inside == a.sequence = <<>> \/ step < Len(a.sequence)
             idxs   == IF a.sequence = <<>> THEN {step}
                       ELSE IF inside THEN {a.sequence[step + 1]}
                       ELSE Garbage
         IN  { IF frame_idx >= Len(a.frames)
               THEN [kind |-> "error",
                     error |-> "Animation frame index out of range",
                     oob |-> ~ inside]
               ELSE [kind |-> "frame", index |-> frame_idx, oob |-> ~ inside] :
               frame_idx \in idxs }
             \cup (IF inside THEN {} ELSE {[kind |-> "crash", oob |-> TRUE]})

\* Animation::get_step_delay_ms(step): the set of outcomes
get_step_delay_ms(a, step) ==
    IF step >= a.num_steps THEN {[kind |-> "delay", value |-> 0, oob |-> FALSE]}
    ELSE { IF r.kind = "frame"
           THEN [kind |-> "delay", value |-> a.frames[r.index + 1].delay_ms,
                 oob |-> r.oob]
           ELSE r : r \in get_step_frame(a, step) }

RECURSIVE duration_from(_, _, _, _)
\* the loop of total_duration_ms from step i on, total being a uint32_t
duration_from(a, i, total, oob) ==
    IF i >= a.num_steps
    THEN {[kind |-> "total", value |-> ToNat(total), oob |-> oob]}
    ELSE UNION { IF r.kind = "delay"
                 THEN duration_from(a, i + 1, WAdd(total, U32(r.value)),
                                    oob \/ r.oob)
                 ELSE {r} : r \in get_step_delay_ms(a, i) }

\* Animation::total_duration_ms(): the set of outcomes
total_duration_ms(a) == duration_from(a, 0, U32(0), FALSE)

-----------------------------------------------------------------------------
(***************************************************************************)
(* Size selection, rescaling and process_ani_file                          *)
(***************************************************************************)
nominal_size(img) == IF img.width > img.height THEN img.width ELSE img.height

\* find_exact_size_index: the first index of nominal size target, or -1
find_exact_size_index(images, target_size) ==
    LET at == {i \in 1..Len(images) : nominal_size(images[i]) = target_size}
    IN  IF at = {} THEN -1 ELSE (CHOOSE i \in at : \A j \in at : i <= j) - 1

AbsDiff(a, b) == IF a > b THEN a - b ELSE b - a

RECURSIVE ClosestFrom(_, _, _, _, _)
\* the loop of find_closest_size_index; best_diff -1 stands for UINT32_MAX
ClosestFrom(images, target_size, idx, best_idx, best_diff) ==
    IF idx >= Len(images) THEN best_idx
    ELSE LET diff == AbsDiff(nominal_size(images[idx + 1]), target_size)
         IN  IF best_diff = -1 \/ diff < best_diff
             THEN ClosestFrom(images, target_size, idx + 1, idx, diff)
             ELSE ClosestFrom(images, target_size, idx + 1, best_idx, best_diff)

find_closest_size_index(images, target_size) ==
    ClosestFrom(images, target_size, 0, 0, -1)

\* std::lround(a / b) for naturals a, b > 0
RoundDiv(a, b) == (2 * a + b) \div (2 * b)

AtLeast1(n) == IF n < 1 THEN 1 ELSE n

\* rescale_cursor: the new geometry and hotspot; the resampled pixels are
\* named by their source and target size
rescale_cursor(src, target_size) ==
    IF target_size = 0 THEN Err("Invalid target size")
    ELSE IF nominal_size(src) = target_size THEN src
    ELSE LET n  == nominal_size(src)
             w0 == AtLeast1(RoundDiv(src.width * target_size, n))
             h0 == AtLeast1(RoundDiv(src.height * target_size, n))
             fits == (IF w0 > h0 THEN w0 ELSE h0) = target_size
             new_w == IF fits THEN w0
                      ELSE IF src.width >= src.height THEN target_size
                      ELSE AtLeast1(RoundDiv(src.width * target_size, src.height))
             new_h == IF fits THEN h0
                      ELSE IF src.width >= src.height
                           THEN AtLeast1(RoundDiv(src.height * target_size, src.width))
                      ELSE target_size
             hx == RoundDiv(src.hotspot_x * new_w, src.width)
             hy == RoundDiv(src.hotspot_y * new_h, src.height)
         IN  [width |-> new_w, height |-> new_h,
              hotspot_x |-> IF hx > new_w - 1 THEN new_w - 1 ELSE hx,
              hotspot_y |-> IF hy > new_h - 1 THEN new_h - 1 ELSE hy,
              pixels |-> <<"rescaled", src.pixels, target_size>>,
              pixel_bytes |-> new_w * new_h * 4]

\* Dedup that keeps every requested size
Dedup_keep_all(sizes, seen) == seen \o sizes

RECURSIVE Dedup(_, _)
\* the targets loop: each size once, in order of first occurrence
Dedup(sizes, seen) ==
    IF sizes = <<>> THEN seen
    ELSE IF \E i \in 1..Len(seen) : seen[i] = Head(sizes)
         THEN Dedup(Tail(sizes), seen)
         ELSE Dedup(Tail(sizes), Append(seen, Head(sizes)))

RECURSIVE SpecificIndices(_, _, _)
\* select_size_indices, filter Specific: the closest index of each target,
\* each index once
SpecificIndices(images, sizes, acc) ==
    IF sizes = <<>> THEN acc
    ELSE LET best_idx == find_closest_size_index(images, Head(sizes))
         IN  IF \E i \in 1..Len(acc) : acc[i] = best_idx
             THEN SpecificIndices(images, Tail(sizes), acc)
             ELSE SpecificIndices(images, Tail(sizes), Append(acc, best_idx))

select_size_indices(images, filter, specific_sizes) ==
    IF images = <<>> THEN <<>>
    ELSE IF filter = "All" THEN [i \in 1..Len(images) |-> i - 1]
    ELSE IF filter = "Max" THEN <<0>>
    ELSE SpecificIndices(images, specific_sizes, <<>>)

\* the ICO/CUR payload of the i-th icon chunk of a file: one cursor image,
\* 32 pixels for odd i and 16 for even i
Icon(i) ==
    IcoBuffer([reserved |-> 0, type |-> 2], 1,
              << [width |-> IF i % 2 = 1 THEN 32 ELSE 16,
                  height |-> IF i % 2 = 1 THEN 32 ELSE 16,
                  planes_or_hotspot_x |-> 1, bpp_or_hotspot_y |-> i,
                  offset |-> U32(DirEnd(1)), size |-> U32(PayloadBytes),
                  fmt |-> "bmp"] >>)

RECURSIVE decode_steps(_, _, _, _)
\* the first loop of process_ani_file, from step on: get_step_frame, then
\* decode_all of the frame's icon data
decode_steps(a, step, frames_by_step, delays) ==
    IF step >= a.num_steps
    THEN {[kind |-> "steps", frames_by_step |-> frames_by_step, delays |-> delays]}
    ELSE UNION {
        IF r.kind = "crash" THEN {Crash}
        ELSE IF r.kind = "error" THEN {Err(r.error)}
        ELSE LET frame == a.frames[r.index + 1] IN
             UNION {
                IF d.status = "crash" THEN {Crash}
                ELSE IF d.status = "error" THEN {Err(d.error)}
                ELSE IF d.images = <<>> THEN {Err("No images decoded from frame")}
                ELSE decode_steps(a, step + 1, Append(frames_by_step, d.images),
                                  Append(delays, frame.delay_ms)) :
                d \in decode_all(Icon(frame.icon_data)) } :
        r \in get_step_frame(a, step) }

Converted(images, delays) ==
    [kind |-> "converted", images |-> images, delays |-> delays]

\* the export half of process_ani_file
export_steps(frames_by_step, delays, filter, specific_sizes) ==
    LET steps == Len(frames_by_step)
        first == Len(frames_by_step[1])
        num_sizes == IF \E i \in 2..steps : Len(frames_by_step[i]) # first
                     THEN 1 ELSE first
        size_span == SubSeq(frames_by_step[1], 1, num_sizes)
        at(k) == ((k - 1) \div steps) + 1
        step(k) == ((k - 1) % steps) + 1
    IN
    IF filter = "Specific"
    THEN LET targets == Dedup(specific_sizes, <<>>)
             exact(t) == find_exact_size_index(size_span, t)
             source(t) == IF exact(t) # -1 THEN exact(t)
                          ELSE find_closest_size_index(size_span, t)
             image(k) ==
                 LET t == targets[at(k)]
                     img == frames_by_step[step(k)][source(t) + 1]
                 IN  IF exact(t) = -1 THEN rescale_cursor(img, t) ELSE img
             n == Len(targets) * steps
         IN  IF \E k \in 1..n : exact(targets[at(k)]) = -1 /\ targets[at(k)] = 0
             THEN Err("Invalid target size")
             ELSE IF n = 0 THEN Err("No frames decoded")
             ELSE Converted([k \in 1..n |-> image(k)],
                            [k \in 1..n |-> delays[step(k)]])
    ELSE LET indices == select_size_indices(size_span, filter, specific_sizes)
             n == Len(indices) * steps
         IN  IF indices = <<>> THEN Err("No sizes selected for export")
             ELSE IF n = 0 THEN Err("No frames decoded")
             ELSE Converted(
                    [k \in 1..n |-> frames_by_step[step(k)][indices[at(k)] + 1]],
                    [k \in 1..n |-> delays[step(k)]])

\* process_ani_file on an outcome of the parse: the set of outcomes
process_ani_file(a, filter, specific_sizes) ==
    IF a.kind # "animation" THEN {a}
    ELSE { IF r.kind = "steps"
           THEN export_steps(r.frames_by_step, r.delays, filter, specific_sizes)
           ELSE r : r \in decode_steps(a, 0, <<>>, <<>>) }

\* the export half of process_cur_file: one image per target (Specific) or
\* per selected index, each with delay 0
export_images(images, filter, specific_sizes) ==
    IF filter = "Specific"
    THEN LET targets == Dedup(specific_sizes, <<>>)
             exact(t) == find_exact_size_index(images, t)
             source(t) == IF exact(t) # -1 THEN exact(t)
                          ELSE find_closest_size_index(images, t)
             image(k) ==
                 LET t == targets[k]
                     img == images[source(t) + 1]
                 IN  IF exact(t) = -1 THEN rescale_cursor(img, t) ELSE img
             n == Len(targets)
         IN  IF \E k \in 1..n : exact(targets[k]) = -1 /\ targets[k] = 0
             THEN Err("Invalid target size")
             ELSE Converted([k \in 1..n |-> image(k)], [k \in 1..n |-> 0])
    ELSE LET indices == select_size_indices(images, filter, specific_sizes)
             n == Len(indices)
         IN  IF indices = <<>> THEN Err("No sizes selected for export")
             ELSE Converted([k \in 1..n |-> images[indices[k] + 1]],
                            [k \in 1..n |-> 0])

\* process_cur_file on the bytes of the file: the set of outcomes
process_cur_file(data, filter, specific_sizes) ==
    { IF d.status = "crash" THEN Crash
      ELSE IF d.status = "error" THEN Err(d.error)
      ELSE export_images(d.images, filter, specific_sizes) :
      d \in decode_all(data) }

-----------------------------------------------------------------------------
(***************************************************************************)
(* ANI files and the calls made on them                                    *)
(***************************************************************************)
MaxList == 2

AnihChunk(size, nf, ns, dr) ==
    Chunk("anih", "", size, SubSeq(<<36, nf, ns, 0, 0, 0, 0, dr, 1>>, 1, size \div 4),
          <<>>)
RateChunk(v) == Chunk("rate", "", 4 * Len(v), v, <<>>)
SeqChunk(v)  == Chunk("seq ", "", 4 * Len(v), v, <<>>)
IconChunk(i) == [fourcc |-> "icon", icon |-> i]
JunkChunk    == [fourcc |-> "junk", icon |-> 0]
FramList(k)  == Chunk("LIST", "fram", 4, <<>>, [i \in 1..k |-> IconChunk(i)])
FramJunk     == Chunk("LIST", "fram", 4, <<>>,
                      <<IconChunk(1), JunkChunk, IconChunk(2)>>)
InfoList     == Chunk("LIST", "INFO", 4, <<>>, <<>>)

AniFile(valid, form_type, chunks) ==
    [kind |-> "ani", valid |-> valid, form_type |-> form_type, chunks |-> chunks]

\* rate entries (jiffies) and seq entries (frame indices) of a file
RateValues == {0, 12}
SeqValues  == 0..(MaxIcons - 1)
Lists(S)   == UNION {[1..n -> S] : n \in 0..MaxList}

\* files that differ in timing: as many icons as anih declares
TimingFiles ==
    { AniFile(TRUE, "ACON",
              <<AnihChunk(36, k, ns, dr)>> \o r \o q \o <<FramList(k)>>) :
      k \in 1..MaxIcons, ns \in 0..MaxSteps, dr \in {0, 6},
      r \in {<<>>} \cup {<<RateChunk(v)>> : v \in Lists(RateValues)},
      q \in {<<>>} \cup {<<SeqChunk(v)>> : v \in Lists(SeqValues)} }

\* files whose icon count may differ from anih's frame count
CountFiles ==
    { AniFile(TRUE, "ACON",
              <<AnihChunk(36, nf, ns, 6)>> \o r \o q \o <<FramList(k)>>) :
      nf \in 0..MaxIcons, k \in 0..MaxIcons, ns \in 0..MaxSteps,
      r \in {<<>>, <<RateChunk(<<12>>)>>},
      q \in {<<>>} \cup {<<SeqChunk(<<i>>)>> : i \in SeqValues} }

\* files that differ in which chunks are present and in their order
OrderChunks(a, f) ==
    {a, RateChunk(<<12, 0>>), SeqChunk(<<1, 0>>), f, InfoList}

Orders(S) ==
    { c \in UNION {[1..n -> S] : n \in 0..Cardinality(S)} :
        \A i, j \in 1..Len(c) : i # j => c[i] # c[j] }

OrderFiles ==
    UNION { UNION { { AniFile(TRUE, "ACON", c) : c \in Orders(OrderChunks(a, f)) } :
                    f \in {FramList(2), FramList(0), FramJunk} } :
            a \in {AnihChunk(36, 2, 2, 6), AnihChunk(32, 2, 2, 6),
                   AnihChunk(36, 0, 2, 6)} }

\* files whose sequence maps two steps to frame 0 and whose rate chunk is as
\* long as the sequence or one entry longer
SharedFiles ==
    { AniFile(TRUE, "ACON",
              <<AnihChunk(36, 2, 3, 6), RateChunk(r), SeqChunk(<<0, 0>>),
                FramList(2)>>) :
      r \in {<<0, 12>>, <<12, 0>>, <<0, 12, 0>>} }

BadFiles ==
    { AniFile(FALSE, "", <<>>),
      AniFile(TRUE, "WAVE", <<AnihChunk(36, 1, 1, 6), FramList(1)>>) }

Filters ==
    { <<"All", <<>>>>, <<"Max", <<>>>>, <<"Specific", <<16>>>>,
      <<"Specific", <<24, 24>>>>, <<"Specific", <<32, 16>>>>,
      <<"Specific", <<>>>>, <<"Specific", <<0>>>> }

Call(fn, arg, res) == [kind |-> "call", fn |-> fn, arg |-> arg, res |-> res]

InitAni ==
    /\ \/ ani \in TimingFiles
       \/ ani \in CountFiles
       \/ ani \in OrderFiles
       \/ ani \in BadFiles
       \/ ani \in SharedFiles
    /\ anim = NoValue
    /\ call = NoValue
    /\ rd_len = 0 /\ rd_pos = 0 /\ rd_last = NoValue
    /\ jf_in = NoValue /\ jf_out = NoValue
    /\ run = NoValue
    /\ inf = NoValue /\ inf_res = NoValue
    /\ riff = NoValue /\ walk = NoValue
    /\ bmp = NoValue /\ bmp_res = NoValue
    /\ scale = NoValue /\ scale_res = NoValue
    /\ ico = NoValue /\ ico_res = NoValue

\* AniParser::parse
Parse ==
    /\ anim = NoValue
    /\ call = NoValue
    /\ anim' \in parse_impl(ani)
    /\ UNCHANGED <<ani, call>>

GetStepFrame(step) ==
    /\ anim.kind = "animation"
    /\ call = NoValue
    /\ \E r \in get_step_frame(anim, step) :
          call' = Call("get_step_frame", step, r)
    /\ UNCHANGED <<ani, anim>>

GetStepDelayMs(step) ==
    /\ anim.kind = "animation"
    /\ call = NoValue
    /\ \E r \in get_step_delay_ms(anim, step) :
          call' = Call("get_step_delay_ms", step, r)
    /\ UNCHANGED <<ani, anim>>

TotalDurationMs ==
    /\ anim.kind = "animation"
    /\ call = NoValue
    /\ \E r \in total_duration_ms(anim) :
          call' = Call("total_duration_ms", 0, r)
    /\ UNCHANGED <<ani, anim>>

\* process_ani_file: parses the file itself, then converts
ProcessAniFile(f) ==
    /\ anim = NoValue
    /\ call = NoValue
    /\ \E a \in parse_impl(ani) :
          /\ anim' = a
          /\ \E r \in process_ani_file(a, f[1], f[2]) :
                call' = Call("process_ani_file", f, r)
    /\ UNCHANGED ani

NextAni ==
    \/ Parse /\ UNCHANGED <<rdVars, jfVars, icoVars, runVars, infVars, riffVars, bmpVars, scaleVars>>
    \/ \E step \in 0..MaxSteps : GetStepFrame(step) /\ UNCHANGED <<rdVars, jfVars, icoVars, runVars, infVars, riffVars, bmpVars, scaleVars>>
    \/ \E step \in 0..MaxSteps : GetStepDelayMs(step) /\ UNCHANGED <<rdVars, jfVars, icoVars, runVars, infVars, riffVars, bmpVars, scaleVars>>
    \/ TotalDurationMs /\ UNCHANGED <<rdVars, jfVars, icoVars, runVars, infVars, riffVars, bmpVars, scaleVars>>
    \/ \E f \in Filters : ProcessAniFile(f) /\ UNCHANGED <<rdVars, jfVars, icoVars, runVars, infVars, riffVars, bmpVars, scaleVars>>

SpecAni == InitAni /\ [][NextAni]_vars

-----------------------------------------------------------------------------
(***************************************************************************)
(* CUR files and process_cur_file.  A CUR file is a valid header, a        *)
(* directory of up to MaxCurEntries entries and payloads inside the file.  *)
(***************************************************************************)
MaxCurEntries == 3

\* width and height of the stored images
CurDims == {<<16, 16>>, <<32, 32>>, <<48, 48>>, <<32, 16>>}

\* hotspot rows of the directory entries
CurHotspots == {0, 1, 15}

CurEntries(n) ==
    { [width |-> d[1], height |-> d[2], planes_or_hotspot_x |-> 1,
       bpp_or_hotspot_y |-> y, offset |-> U32(DirEnd(n)),
       size |-> U32(PayloadBytes), fmt |-> "png"] :
      d \in CurDims, y \in CurHotspots }

\* filter and specific_sizes of a call of process_cur_file
CurFilters ==
    { <<"All", <<>>>>, <<"Max", <<>>>>, <<"Specific", <<>>>>,
      <<"Specific", <<0>>>>, <<"Specific", <<16>>>>, <<"Specific", <<24>>>>,
      <<"Specific", <<32, 16, 32>>>>, <<"Specific", <<24, 48>>>> }

InitCur ==
    /\ \E n \in 1..MaxCurEntries : \E d \in [1..n -> CurEntries(n)] :
          ico = IcoBuffer([reserved |-> 0, type |-> 2], n, d)
    /\ ico_res = NoValue
    /\ rd_len = 0 /\ rd_pos = 0 /\ rd_last = NoValue
    /\ jf_in = NoValue /\ jf_out = NoValue
    /\ ani = NoValue /\ anim = NoValue /\ call = NoValue
    /\ run = NoValue
    /\ inf = NoValue /\ inf_res = NoValue
    /\ riff = NoValue /\ walk = NoValue
    /\ bmp = NoValue /\ bmp_res = NoValue
    /\ scale = NoValue /\ scale_res = NoValue

ProcessCurFile(f) ==
    /\ call = NoValue
    /\ \E r \in process_cur_file(ico, f[1], f[2]) :
          call' = Call("process_cur_file", f, r)
    /\ UNCHANGED <<ani, anim>>

NextCur ==
    (\E f \in CurFilters : ProcessCurFile(f)) /\ UNCHANGED <<rdVars, jfVars, icoVars, runVars, infVars, riffVars, bmpVars, scaleVars>>

SpecCur == InitCur /\ [][NextCur]_vars

-----------------------------------------------------------------------------
(***************************************************************************)
(* The conversion loop of main over the role mappings.  A mapping is what  *)
(* happens when its cursor is converted: "ok", "missing" (cursor file not  *)
(* found) or "broken" (the conversion throws).                             *)
(***************************************************************************)
MaxMappings == 3

Cursors == {"ok", "missing", "broken"}

\* the state of the run before the first mapping
Run(skip_broken, mappings) ==
    [kind |-> "run", skip_broken |-> skip_broken, mappings |-> mappings,
     next |-> 1, attempted |-> <<>>, success_count |-> 0, error_count |-> 0,
     returned |-> FALSE, code |-> 0, index_written |-> FALSE]

\* return 1
return_1(r) == [r EXCEPT !.returned = TRUE, !.code = 1]

\* a failed cursor that is always counted and skipped
cursor_failed_always_skips(r) ==
    [r EXCEPT !.error_count = @ + 1, !.next = @ + 1]

\* a failed cursor: return 1 unless skip_broken, else count it and continue
cursor_failed(r) ==
    IF ~ r.skip_broken THEN return_1(r)
    ELSE [r EXCEPT !.error_count = @ + 1, !.next = @ + 1]

\* one iteration of the loop over the mappings
convert_mapping(r) ==
    LET at == [r EXCEPT !.attempted = Append(@, r.next)]
    IN  IF r.mappings[r.next] = "ok"
        THEN [at EXCEPT !.success_count = @ + 1, !.next = @ + 1]
        ELSE cursor_failed(at)

\* after the loop: fail when nothing was converted, else write index.theme
\* or the cursor list and return 0
after_loop(r) ==
    IF r.success_count = 0 THEN return_1(r)
    ELSE [r EXCEPT !.index_written = TRUE, !.returned = TRUE, !.code = 0]

InitRun ==
    /\ \E b \in BOOLEAN, n \in 0..MaxMappings :
          \E m \in [1..n -> Cursors] : run = Run(b, m)
    /\ rd_len = 0 /\ rd_pos = 0 /\ rd_last = NoValue
    /\ jf_in = NoValue /\ jf_out = NoValue
    /\ ico = NoValue /\ ico_res = NoValue
    /\ ani = NoValue /\ anim = NoValue /\ call = NoValue
    /\ inf = NoValue /\ inf_res = NoValue
    /\ riff = NoValue /\ walk = NoValue
    /\ bmp = NoValue /\ bmp_res = NoValue
    /\ scale = NoValue /\ scale_res = NoValue

ConvertMapping ==
    /\ ~ run.returned
    /\ run.next <= Len(run.mappings)
    /\ run' = convert_mapping(run)

AfterLoop ==
    /\ ~ run.returned
    /\ run.next > Len(run.mappings)
    /\ run' = after_loop(run)

NextRun ==
    \/ ConvertMapping /\ UNCHANGED <<rdVars, jfVars, icoVars, aniVars, infVars, riffVars, bmpVars, scaleVars>>
    \/ AfterLoop /\ UNCHANGED <<rdVars, jfVars, icoVars, aniVars, infVars, riffVars, bmpVars, scaleVars>>

SpecRun == InitRun /\ [][NextRun]_vars

-----------------------------------------------------------------------------
(***************************************************************************)
(* InfParser.  An INF file is its [Strings] variables (keys in lower case)  *)
(* and the registry lines of its AddReg sections in the order they are      *)
(* processed.  A text is a sequence of tokens: literal text, or a %NAME%    *)
(* reference.                                                              *)
(***************************************************************************)
MaxRegEntries == 2

kMaxIterations == 5

Lit(text) == [ref |-> FALSE, text |-> text]
Ref(name) == [ref |-> TRUE, text |-> name]

to_lower(name) ==
    IF name = "CUR_DIR" THEN "cur_dir"
    ELSE IF name = "MISSING" THEN "missing"
    ELSE name

\* std::all_of(isdigit) on a non-empty name
IsNumeric(name) == name \in {"10", "24"}

Warning(msg, name) == [msg |-> msg, name |-> name]

\* one %NAME% reference, or one stretch of literal text, of a pass
expand_token(tok, variables, iter) ==
    IF ~ tok.ref THEN [output |-> <<tok>>, found_var |-> FALSE, warnings |-> <<>>]
    ELSE LET var_name == to_lower(tok.text) IN
         IF IsNumeric(var_name)
         THEN [output |-> <<Ref(var_name)>>, found_var |-> FALSE, warnings |-> <<>>]
         ELSE IF var_name \in DOMAIN variables
         THEN [output |-> variables[var_name], found_var |-> TRUE,
               warnings |-> <<>>]
         ELSE [output |-> <<tok>>, found_var |-> FALSE,
               warnings |-> IF iter = 0
                            THEN <<Warning("Unresolved variable", var_name)>>
                            ELSE <<>>]

RECURSIVE expand_pass(_, _, _)
\* one iteration of expand_vars over the whole text
expand_pass(text, variables, iter) ==
    IF text = <<>>
    THEN [output |-> <<>>, found_var |-> FALSE, warnings |-> <<>>]
    ELSE LET h == expand_token(Head(text), variables, iter)
             t == expand_pass(Tail(text), variables, iter)
         IN  [output |-> h.output \o t.output,
              found_var |-> h.found_var \/ t.found_var,
              warnings |-> h.warnings \o t.warnings]

RECURSIVE expand_from(_, _, _, _)
\* the iterations of expand_vars from iter on
expand_from(result, variables, iter, warnings) ==
    IF iter >= kMaxIterations THEN [value |-> result, warnings |-> warnings]
    ELSE LET p == expand_pass(result, variables, iter)
         IN  IF ~ p.found_var
             THEN [value |-> p.output, warnings |-> warnings \o p.warnings]
             ELSE expand_from(p.output, variables, iter + 1,
                              warnings \o p.warnings)

\* expand_vars(input): the expanded text and the warnings added
expand_vars(input, variables) == expand_from(input, variables, 0, <<>>)

kSchemeSlots == <<"pointer", "help">>

win_key_to_role(win_key) ==
    IF win_key = "Arrow" THEN "pointer"
    ELSE IF win_key = "Help" THEN "help"
    ELSE ""

\* the parser before the first registry line
Parser(variables) ==
    [variables |-> variables,
     theme_name |-> IF "scheme_name" \in DOMAIN variables
                    THEN variables["scheme_name"] ELSE <<>>,
     role_mappings |-> <<>>, role_from_wreg |-> <<>>, warnings |-> <<>>]

\* m[k] = v for a function m whose domain may lack k
Put(m, k, v) == [x \in DOMAIN m \cup {k} |-> IF x = k THEN v ELSE m[x]]

\* add_mapping that keeps whatever mapping came first
add_mapping_first_wins(st, role, value, high_priority) ==
    IF role \notin DOMAIN st.role_mappings
    THEN [st EXCEPT !.role_mappings = Put(@, role, value),
                    !.role_from_wreg = Put(@, role, high_priority)]
    ELSE st

add_mapping(st, role, value, high_priority) ==
    IF role \notin DOMAIN st.role_mappings
    THEN [st EXCEPT !.role_mappings = Put(@, role, value),
                    !.role_from_wreg = Put(@, role, high_priority)]
    ELSE IF high_priority /\ ~ st.role_from_wreg[role]
    THEN [st EXCEPT !.role_mappings = Put(@, role, value),
                    !.role_from_wreg = Put(@, role, TRUE)]
    ELSE st

add_warnings(st, warnings) == [st EXCEPT !.warnings = @ \o warnings]

process_cursor_reg_entry(st, entry) ==
    IF entry.value_name = ""
    THEN IF entry.data # <<>> /\ st.theme_name = <<>>
         THEN LET e == expand_vars(entry.data, st.variables)
              IN  [add_warnings(st, e.warnings) EXCEPT !.theme_name = e.value]
         ELSE st
    ELSE IF win_key_to_role(entry.value_name) = "" THEN st
    ELSE LET e == expand_vars(entry.data, st.variables)
         IN  add_mapping(add_warnings(st, e.warnings),
                         win_key_to_role(entry.value_name), e.value, TRUE)

RECURSIVE parse_scheme_string(_, _, _)
\* the slot loop of parse_scheme_string from slot i (0-based) on
parse_scheme_string(st, paths, i) ==
    IF i >= Len(paths) \/ i >= Len(kSchemeSlots) THEN st
    ELSE IF paths[i + 1] = <<>> THEN parse_scheme_string(st, paths, i + 1)
    ELSE LET e == expand_vars(paths[i + 1], st.variables)
         IN  parse_scheme_string(
                 add_mapping(add_warnings(st, e.warnings), kSchemeSlots[i + 1],
                             e.value, FALSE),
                 paths, i + 1)

process_scheme_reg_entry(st, entry) ==
    IF entry.paths = <<>> THEN st
    ELSE parse_scheme_string(st, entry.paths, 0)

RECURSIVE parse_add_reg_section(_, _)
\* the registry lines, in the order they are processed
parse_add_reg_section(st, entries) ==
    IF entries = <<>> THEN st
    ELSE parse_add_reg_section(
             IF Head(entries).subkey = "control panel\\cursors\\schemes"
             THEN process_scheme_reg_entry(st, Head(entries))
             ELSE IF Head(entries).subkey = "control panel\\cursors"
             THEN process_cursor_reg_entry(st, Head(entries))
             ELSE st,
             Tail(entries))

\* InfParser::parse_string: the InfResult
parse_string(content) ==
    LET st == parse_add_reg_section(Parser(content.strings), content.entries)
    IN  [kind |-> "inf", theme_name |-> st.theme_name,
         mappings |-> st.role_mappings,
         warnings |-> IF st.theme_name = <<>>
                      THEN Append(st.warnings, Warning("SCHEME_NAME not found", ""))
                      ELSE st.warnings]

\* a Wreg line and a Scheme.Reg line
WregEntry(value_name, data) ==
    [subkey |-> "control panel\\cursors", value_name |-> value_name,
     data |-> data, paths |-> <<>>]
SchemeEntry(paths) ==
    [subkey |-> "control panel\\cursors\\schemes", value_name |-> "",
     data |-> <<>>, paths |-> paths]

\* the [Strings] sections
StringsSections ==
    { [scheme_name |-> <<Lit("Theme")>>],
      [scheme_name |-> <<Lit("Theme")>>, cur_dir |-> <<Lit("Cursors")>>],
      [scheme_name |-> <<Lit("Theme")>>, cur_dir |-> <<Ref("dir2")>>],
      [scheme_name |-> <<Lit("Theme")>>, cur_dir |-> <<Ref("dir2")>>,
       dir2 |-> <<Lit("Deep")>>],
      [cur_dir |-> <<Ref("cur_dir")>>] }

\* the paths of the registry lines
Paths ==
    { <<Ref("10"), Ref("CUR_DIR"), Lit("a.ani")>>,
      <<Lit("b.ani")>>,
      <<Ref("MISSING"), Lit("c.ani")>> }

RegEntries ==
    { WregEntry(k, p) : k \in {"Arrow", "Help"}, p \in Paths }
    \cup { WregEntry("Unknown", <<Lit("b.ani")>>),
           WregEntry("", <<Ref("CUR_DIR")>>) }
    \cup { SchemeEntry(<<p>>) : p \in Paths }
    \cup { SchemeEntry(<<p, q>>) : p \in Paths \cup {<<>>}, q \in Paths }

InitInf ==
    /\ \E v \in StringsSections, n \in 0..MaxRegEntries :
          \E e \in [1..n -> RegEntries] :
             inf = [kind |-> "inf", strings |-> v, entries |-> e]
    /\ inf_res = NoValue
    /\ rd_len = 0 /\ rd_pos = 0 /\ rd_last = NoValue
    /\ jf_in = NoValue /\ jf_out = NoValue
    /\ ico = NoValue /\ ico_res = NoValue
    /\ ani = NoValue /\ anim = NoValue /\ call = NoValue
    /\ run = NoValue
    /\ riff = NoValue /\ walk = NoValue
    /\ bmp = NoValue /\ bmp_res = NoValue
    /\ scale = NoValue /\ scale_res = NoValue

ParseString ==
    /\ inf_res = NoValue
    /\ inf_res' = parse_string(inf)
    /\ UNCHANGED inf

NextInf ==
    ParseString /\ UNCHANGED <<rdVars, jfVars, icoVars, aniVars, runVars, riffVars, bmpVars, scaleVars>>

SpecInf == InitInf /\ [][NextInf]_vars

-----------------------------------------------------------------------------
(***************************************************************************)
(* RiffReader::parse_chunk and iterate_chunks.  The buffer is its bytes;   *)
(* offsets are size_t words, chunk sizes uint32_t words.                   *)
(***************************************************************************)
MaxChunks == 2
MaxCalls == 4

\* the bytes of the fourccs "LIST", "anih" and "fram"
LIST == <<76, 73, 83, 84>>
ANIH == <<97, 110, 105, 104>>
FRAM == <<102, 114, 97, 109>>

\* utils::read_u32_le on the bytes at a position (from 0)
read_u32_le(data, pos) ==
    <<data[pos + 1] + 256 * data[pos + 2], data[pos + 3] + 256 * data[pos + 4]>>

\* std::min of a uint32_t size and a small size_t count
MinSize(size, count) ==
    IF WLess(ToSize(size), U64(count)) THEN ToNat(size) ELSE count

\* size - 4 for a uint32_t size >= 4
Minus4(size) == WAdd(size, <<Digit - 4, Digit - 1>>)

NoChunk(reason) == [kind |-> "none", reason |-> reason]

\* size_t chunk_total = 8 + chunk.size, padded to a word boundary; the sum is
\* a uint32_t
chunk_total(size) ==
    LET total == ToSize(WAdd(U32(8), size))
    IN  IF total[1] % 2 = 1 THEN WAdd(total, U64(1)) ELSE total

\* parse_chunk(data, offset): the chunk and the advanced offset, or nullopt
parse_chunk(data, offset) ==
    IF WGreater(WAdd(offset, U64(8)), U64(Len(data)))
    THEN NoChunk("fewer than 8 bytes")
    ELSE LET at     == ToNat(offset)
             fourcc == SubSeq(data, at + 1, at + 4)
             size   == read_u32_le(data, at + 4)
             next   == WAdd(offset, chunk_total(size))
         IN  IF fourcc = LIST
             THEN IF WLess(size, U32(4)) \/ at + 12 > Len(data)
                  THEN NoChunk("RIFF: LIST chunk too small")
                  ELSE [kind |-> "chunk", at |-> at, fourcc |-> fourcc,
                        size |-> size,
                        form_type |-> SubSeq(data, at + 9, at + 12),
                        data_offset |-> at + 12,
                        data_size |-> MinSize(Minus4(size), Len(data) - at - 12),
                        offset |-> next]
             ELSE [kind |-> "chunk", at |-> at, fourcc |-> fourcc,
                   size |-> size, form_type |-> <<>>,
                   data_offset |-> at + 8,
                   data_size |-> MinSize(size, Len(data) - at - 8),
                   offset |-> next]

\* the walk before the first iteration
Walk == [kind |-> "walk", offset |-> U64(0), calls |-> <<>>,
         stopped |-> FALSE, reason |-> "", returned |-> TRUE]

stop(w, reason) == [w EXCEPT !.stopped = TRUE, !.reason = reason]

\* one iteration of the loop of iterate_chunks; ret is what the callback
\* returns if it is invoked
iterate_chunks(data, w, ret) ==
    IF ~ WLess(w.offset, U64(Len(data))) THEN stop(w, "end of data")
    ELSE LET chunk == parse_chunk(data, w.offset)
         IN  IF chunk.kind = "none" THEN stop(w, chunk.reason)
             ELSE LET called == [w EXCEPT !.offset = chunk.offset,
                                          !.calls = Append(@, chunk),
                                          !.returned = ret]
                  IN  IF ~ ret THEN stop(called, "callback") ELSE called

\* the declared sizes of the chunks of a buffer
ChunkSizes ==
    { U32(0), U32(1), U32(2), U32(4), U32(5),
      <<Digit - 8, Digit - 1>>, <<Digit - 7, Digit - 1>> }

\* the bytes of a chunk: header, data (the form type first in a LIST) and
\* the padding byte; the data of an oversized chunk is cut short
ChunkBytes(fourcc, size) ==
    LET n    == IF WLess(size, U32(6)) THEN ToNat(size) ELSE 4
        body == [i \in 1..(n + (n % 2)) |-> IF i <= 4 THEN FRAM[i] ELSE 0]
    IN  fourcc \o <<size[1] % 256, size[1] \div 256,
                    size[2] % 256, size[2] \div 256>> \o body

Chunks == { ChunkBytes(f, n) : f \in {LIST, ANIH}, n \in ChunkSizes }

\* what may follow the last chunk: nothing, or a fragment of a header
Trailers == { <<>>, <<97, 110, 105>> }

RECURSIVE Flatten(_)
Flatten(parts) ==
    IF parts = <<>> THEN <<>> ELSE Head(parts) \o Flatten(Tail(parts))

InitRiff ==
    /\ \E n \in 0..MaxChunks, t \in Trailers :
          \E c \in [1..n -> Chunks] : riff = Flatten(c) \o t
    /\ walk = Walk
    /\ rd_len = 0 /\ rd_pos = 0 /\ rd_last = NoValue
    /\ jf_in = NoValue /\ jf_out = NoValue
    /\ ico = NoValue /\ ico_res = NoValue
    /\ ani = NoValue /\ anim = NoValue /\ call = NoValue
    /\ run = NoValue
    /\ inf = NoValue /\ inf_res = NoValue
    /\ bmp = NoValue /\ bmp_res = NoValue
    /\ scale = NoValue /\ scale_res = NoValue

IterateChunks(ret) ==
    /\ ~ walk.stopped
    /\ Len(walk.calls) < MaxCalls
    /\ walk' = iterate_chunks(riff, walk, ret)
    /\ UNCHANGED riff

NextRiff ==
    (\E ret \in BOOLEAN : IterateChunks(ret))
        /\ UNCHANGED <<rdVars, jfVars, icoVars, aniVars, runVars, infVars, bmpVars, scaleVars>>

SpecRiff == InitRiff /\ [][NextRiff]_vars

-----------------------------------------------------------------------------
(***************************************************************************)
(* rescale_cursor on its own.  A source image is its geometry, its hotspot *)
(* (a uint16_t that decode takes from the directory entry unchecked) and   *)
(* the length of its pixel buffer.                                         *)
(***************************************************************************)
MaxDim == 5
MaxTarget == 7

\* a CursorImage whose pixel buffer has width * height * 4 bytes
SourceImage(w, h, hx, hy) ==
    [width |-> w, height |-> h, hotspot_x |-> hx, hotspot_y |-> hy,
     pixels |-> <<"decoded", w, h>>, pixel_bytes |-> w * h * 4]

InitScale ==
    /\ \E w \in 1..MaxDim, h \in 1..MaxDim, hx \in 0..MaxDim, hy \in {0, MaxDim},
          t \in 0..MaxTarget :
          scale = [kind |-> "scale", src |-> SourceImage(w, h, hx, hy),
                   target_size |-> t]
    /\ scale_res = NoValue
    /\ rd_len = 0 /\ rd_pos = 0 /\ rd_last = NoValue
    /\ jf_in = NoValue /\ jf_out = NoValue
    /\ ico = NoValue /\ ico_res = NoValue
    /\ ani = NoValue /\ anim = NoValue /\ call = NoValue
    /\ run = NoValue
    /\ inf = NoValue /\ inf_res = NoValue
    /\ riff = NoValue /\ walk = NoValue
    /\ bmp = NoValue /\ bmp_res = NoValue

RescaleCursor ==
    /\ scale_res = NoValue
    /\ scale_res' = Call("rescale_cursor", scale.target_size,
                         rescale_cursor(scale.src, scale.target_size))
    /\ UNCHANGED scale

NextScale ==
    RescaleCursor
        /\ UNCHANGED <<rdVars, jfVars, icoVars, aniVars, runVars, infVars,
                       riffVars, bmpVars>>

SpecScale == InitScale /\ [][NextScale]_vars

-----------------------------------------------------------------------------
(***************************************************************************)
(* IcoCurDecoder::decode_bmp.  A payload is its length, the fields of its  *)
(* BITMAPINFOHEADER and the bytes from index 40 on: body holds the first   *)
(* of them and Pattern gives the rest, so that a payload of a gigabyte is  *)
(* a small value.  bmp_width is not negative and header_size is at least   *)
(* 40 in every payload here; lengths and byte indices stay below 2^31.     *)
(* The image decoded is its geometry and the pixels at the coordinates of  *)
(* Probes: every pixel of a small image, the corners of a large one (each  *)
(* pixel is written by one iteration of the loops and by no other).        *)
(***************************************************************************)
MaxWidth == 2
MaxRows == 2

\* bytes of the BITMAPINFOHEADER
InfoHeaderBytes == 40

\* the byte at index i >= body length + 40 of a payload
Pattern(i) == ((i % Digit) + (i \div Digit)) % 255

\* data[i] for 40 <= i < data.size()
ByteAt(d, i) ==
    IF i - InfoHeaderBytes < Len(d.body) THEN d.body[i - InfoHeaderBytes + 1]
    ELSE Pattern(i)

\* what an out-of-bounds read of a byte yields
GarbageBytes == {0, 255}

\* (byte & (0x80 >> (x % 8))) != 0
BitSet(byte, x) == (byte \div (2 ^ (7 - (x % 8)))) % 2 = 1

\* actual_width / actual_height: the header's value (half the stored height),
\* or the directory entry's when that is 0, where 0 stands for 256
actual_width(d) ==
    IF d.width # 0 THEN d.width
    ELSE IF d.entry.width = 0 THEN 256 ELSE d.entry.width

actual_height(d) ==
    IF d.height \div 2 # 0 THEN d.height \div 2
    ELSE IF d.entry.height = 0 THEN 256 ELSE d.entry.height

\* uint32_t row_stride = ((actual_width * bpp + 31) / 32) * 4
row_stride(d) ==
    WMul(WDiv(WAdd(WMul(U32(actual_width(d)), d.bpp), U32(31)), 32), 4)

\* uint32_t mask_stride = ((actual_width + 31) / 32) * 4
mask_stride(d) ==
    WMul(WDiv(WAdd(U32(actual_width(d)), U32(31)), 32), 4)

\* color_table_size = (1u << bpp) * 4 for bpp <= 8, else 0
color_table_size(d) == IF d.bpp <= 8 THEN (2 ^ d.bpp) * 4 ELSE 0

\* the palette: entries are read while reader.remaining() >= 4
palette(d) ==
    IF d.bpp > 8 THEN <<>>
    ELSE LET room == (d.len - d.header_size) \div 4
             n    == IF room < 2 ^ d.bpp THEN room ELSE 2 ^ d.bpp
         IN  [i \in 1..n |->
                LET at == d.header_size + 4 * (i - 1)
                IN  <<ByteAt(d, at + 2), ByteAt(d, at + 1), ByteAt(d, at), 255>>]

pixel_offset(d) == d.header_size + color_table_size(d)

\* size_t mask_offset = pixel_offset + size_t(row_stride) * actual_height
mask_offset(d) ==
    WAdd(U64(pixel_offset(d)), WMul(ToSize(row_stride(d)), actual_height(d)))

\* src_y: rows are stored bottom-up unless the header height is negative
src_y(d, y) == IF d.top_down THEN y ELSE actual_height(d) - 1 - y

\* size_t src_row = pixel_offset + size_t(src_y) * row_stride
src_row(d, y) ==
    WAdd(U64(pixel_offset(d)), WMul(ToSize(row_stride(d)), src_y(d, y)))

Zero == <<0, 0, 0, 0>>

Rgba(v, oob) == [rgba |-> v, oob |-> oob]

\* data[idx] without a bounds check of its own: the byte, or what a read
\* outside the buffer yields
unchecked_read(d, idx) ==
    IF WLess(idx, U64(d.len)) THEN {[byte |-> ByteAt(d, ToNat(idx)), oob |-> FALSE]}
    ELSE {[byte |-> g, oob |-> TRUE] : g \in GarbageBytes}

\* palette lookup: (idx < palette.size()) ? palette[idx] : 0
lookup(d, idx) == IF idx < Len(palette(d)) THEN palette(d)[idx + 1] ELSE Zero

\* the body of the pixel loop for (x, y): the set of values the pixel gets
decode_pixel(d, x, y) ==
    LET row == src_row(d, y)
        first == WAdd(row, ToSize(WDiv(WMul(U32(x), d.bpp), 8)))
    IN
    IF ~ WLess(first, U64(d.len)) THEN {Rgba(Zero, FALSE)}
    ELSE IF d.bpp = 1
         THEN { Rgba(lookup(d, IF BitSet(r.byte, x) THEN 1 ELSE 0), r.oob) :
                r \in unchecked_read(d, WAdd(row, U64(x \div 8))) }
    ELSE IF d.bpp = 4
         THEN { Rgba(lookup(d, IF x % 2 = 0 THEN r.byte \div 16 ELSE r.byte % 16),
                     r.oob) :
                r \in unchecked_read(d, WAdd(row, U64(x \div 2))) }
    ELSE IF d.bpp = 8
         THEN { Rgba(lookup(d, r.byte), r.oob) :
                r \in unchecked_read(d, WAdd(row, U64(x))) }
    ELSE IF d.bpp = 24
         THEN LET byte_idx == WAdd(row, WMul(U64(x), 3))
              IN  IF WLess(WAdd(byte_idx, U64(2)), U64(d.len))
                  THEN LET at == ToNat(byte_idx)
                       IN  {Rgba(<<ByteAt(d, at + 2), ByteAt(d, at + 1),
                                   ByteAt(d, at), 255>>, FALSE)}
                  ELSE {Rgba(Zero, FALSE)}
    ELSE IF d.bpp = 32
         THEN LET byte_idx == WAdd(row, WMul(U64(x), 4))
              IN  IF WLess(WAdd(byte_idx, U64(3)), U64(d.len))
                  THEN LET at == ToNat(byte_idx)
                       IN  {Rgba(<<ByteAt(d, at + 2), ByteAt(d, at + 1),
                                   ByteAt(d, at), ByteAt(d, at + 3)>>, FALSE)}
                  ELSE {Rgba(Zero, FALSE)}
    ELSE {Rgba(Zero, FALSE)}

\* the AND mask is applied: bpp < 32 && mask_offset + mask_stride <= data.size()
mask_applied(d) ==
    /\ d.bpp < 32
    /\ ~ WGreater(WAdd(mask_offset(d), ToSize(mask_stride(d))), U64(d.len))

\* the body of the mask loop for (x, y): TRUE when the pixel is made transparent
transparent(d, x, y) ==
    LET byte_idx == WAdd(WAdd(mask_offset(d),
                              WMul(ToSize(mask_stride(d)), src_y(d, y))),
                         U64(x \div 8))
    IN  /\ WLess(byte_idx, U64(d.len))
        /\ BitSet(ByteAt(d, ToNat(byte_idx)), x)

\* the pixel at (x, y) after both loops
output_pixel(d, x, y) ==
    { IF mask_applied(d) /\ transparent(d, x, y)
      THEN Rgba(<<p.rgba[1], p.rgba[2], p.rgba[3], 0>>, p.oob)
      ELSE p : p \in decode_pixel(d, x, y) }

\* the coordinates whose pixels the decoded image shows
Probes(d) ==
    LET w == actual_width(d)
        h == actual_height(d)
        cols == IF w <= 256 THEN 0..(w - 1)
                ELSE {x \in {0, 1, 2 ^ 29, w - 1} : x < w}
        rows == IF h <= 256 THEN 0..(h - 1) ELSE {0, h - 1}
    IN  cols \X rows

\* decode_bmp(data, entry, is_cursor): the set of outcomes
decode_bmp(d) ==
    IF d.len < InfoHeaderBytes THEN {Err("ICO/CUR: BMP data too small")}
    ELSE IF d.compression # 0 THEN {Err("ICO/CUR: Compressed BMP not supported")}
    ELSE IF d.bpp <= 8 /\ ~ seek_ok(U64(d.header_size), d.len)
         THEN {Err("ByteReader::seek: position out of range")}
    ELSE LET px(c) == output_pixel(d, c[1], c[2])
             unsure == {c \in Probes(d) : Cardinality(px(c)) > 1}
             value(f, c) == IF c \in unsure THEN f[c] ELSE CHOOSE p \in px(c) : TRUE
             images ==
                 { [kind |-> "image",
                    width |-> actual_width(d), height |-> actual_height(d),
                    hotspot_x |-> IF d.is_cursor THEN d.entry.planes_or_hotspot_x
                                  ELSE 0,
                    hotspot_y |-> IF d.is_cursor THEN d.entry.bpp_or_hotspot_y
                                  ELSE 0,
                    pixels |-> [c \in Probes(d) |-> value(f, c).rgba],
                    oob |-> \E c \in Probes(d) : value(f, c).oob] :
                   f \in { g \in [unsure -> UNION {px(c) : c \in unsure}] :
                             \A c \in unsure : g[c] \in px(c) } }
         IN  images \cup (IF \E i \in images : i.oob THEN {Crash} ELSE {})

\* the directory entry of every payload: a 2 x 2 image with hotspot (1, 2)
BmpEntry ==
    [width |-> 2, height |-> 2, planes_or_hotspot_x |-> 1, bpp_or_hotspot_y |-> 2]

Payload(len, header_size, width, height, top_down, bpp, compression, body,
        is_cursor) ==
    [kind |-> "bmp", len |-> len, header_size |-> header_size, width |-> width,
     height |-> height, top_down |-> top_down, bpp |-> bpp,
     compression |-> compression, body |-> body, entry |-> BmpEntry,
     is_cursor |-> is_cursor]

\* the colour table of a file: entry i is (B, G, R, 0)
PaletteBytes(bpp) ==
    IF bpp > 8 THEN <<>>
    ELSE [p \in 1..((2 ^ bpp) * 4) |->
            LET i == (p - 1) \div 4
                k == (p - 1) % 4
            IN  IF k = 3 THEN 0 ELSE ((2 * k + 3) * i + k + 1) % 256]

\* the bytes a file needs for its rows: ((w * bpp + 31) / 32) * 4 per row
RowBytes(w, bpp) == ((w * bpp + 31) \div 32) * 4

\* the bytes after the header of a complete file: what the header size adds
\* to 40 bytes, the colour table, h pixel rows and h mask rows
FullBody(hs, w, h, bpp, seed, m) ==
    [p \in 1..(hs - InfoHeaderBytes) |-> 0]
        \o PaletteBytes(bpp)
        \o [p \in 1..(RowBytes(w, bpp) * h) |-> (seed + 85 * p) % 256]
        \o [p \in 1..(RowBytes(w, 1) * h) |-> m]

\* lengths a body of n bytes is cut to
Cuts(n) == {n, n - 1, n \div 2, 0} \cap 0..n

\* small payloads, complete and cut short
SmallPayloads(hs, w, sh, td, bpp, seed, m, cur) ==
    LET probe == Payload(0, hs, w, sh, td, bpp, 0, <<>>, cur)
        full  == FullBody(hs, actual_width(probe), actual_height(probe), bpp,
                          seed, m)
    IN  { Payload(InfoHeaderBytes + n, hs, w, sh, td, bpp, 0,
                  SubSeq(full, 1, n), cur) : n \in Cuts(Len(full)) }

\* payloads of a gigabyte, complete: 2^27 x 2 at 32 bpp and 2^29 x 1 at 8 bpp;
\* and a payload of 1072 bytes that declares a width of 2^29 + 1 at 8 bpp
LargePayloads ==
    { Payload(InfoHeaderBytes + 2 ^ 30 + 2 ^ 25, InfoHeaderBytes, 2 ^ 27, 4,
              FALSE, 32, 0, <<>>, TRUE),
      Payload(InfoHeaderBytes + 1024 + 2 ^ 29 + 2 ^ 26, InfoHeaderBytes, 2 ^ 29,
              2, FALSE, 8, 0, PaletteBytes(8), TRUE),
      Payload(InfoHeaderBytes + 1024 + 8, InfoHeaderBytes, 2 ^ 29 + 1, 2,
              FALSE, 8, 0, PaletteBytes(8) \o <<1, 2, 3, 4, 5, 6, 7, 8>>, TRUE) }

\* payloads that are rejected: shorter than a header, compressed
BadPayloads ==
    { Payload(InfoHeaderBytes - 1, InfoHeaderBytes, 1, 2, FALSE, 32, 0, <<>>, TRUE),
      Payload(InfoHeaderBytes + 8, InfoHeaderBytes, 1, 2, FALSE, 32, 1,
              <<1, 2, 3, 4, 0, 0, 0, 0>>, TRUE) }

InitBmp ==
    /\ \/ \E hs \in {InfoHeaderBytes, InfoHeaderBytes + 8}, w \in 0..MaxWidth,
            sh \in {1} \cup {2 * r : r \in 1..MaxRows}, td \in BOOLEAN,
            bpp \in {1, 4, 8, 16, 24, 32}, seed \in {0, 170, 255},
            m \in {0, 160, 255}, cur \in BOOLEAN :
            bmp \in SmallPayloads(hs, w, sh, td, bpp, seed, m, cur)
       \/ bmp \in LargePayloads
       \/ bmp \in BadPayloads
    /\ bmp_res = NoValue
    /\ rd_len = 0 /\ rd_pos = 0 /\ rd_last = NoValue
    /\ jf_in = NoValue /\ jf_out = NoValue
    /\ ico = NoValue /\ ico_res = NoValue
    /\ ani = NoValue /\ anim = NoValue /\ call = NoValue
    /\ run = NoValue
    /\ inf = NoValue /\ inf_res = NoValue
    /\ riff = NoValue /\ walk = NoValue
    /\ scale = NoValue /\ scale_res = NoValue

DecodeBmp ==
    /\ bmp_res = NoValue
    /\ bmp_res' \in decode_bmp(bmp)
    /\ UNCHANGED bmp

NextBmp ==
    DecodeBmp
        /\ UNCHANGED <<rdVars, jfVars, icoVars, aniVars, runVars, infVars,
                       riffVars, scaleVars>>

SpecBmp == InitBmp /\ [][NextBmp]_vars

-----------------------------------------------------------------------------
(***************************************************************************)
(* Properties of ByteReader and of jiffies_to_ms                           *)
(***************************************************************************)

\* C2: after every seek/skip/read the position is within 0..L; the operation
\* succeeded exactly when the true sum pos + n (for seek: p) is at most L, and
\* then the position advanced by exactly n (seek: became p); otherwise it
\* raised out_of_range, returned no data and left the position unchanged.
C2_ReaderExact ==
    rd_last.kind = "op" =>
        LET base == IF rd_last.op = "seek" THEN 0 ELSE rd_last.pre
            fits == Fits(base, rd_last.arg, rd_len)
        IN  /\ rd_pos \in 0..rd_len
            /\ fits => /\ rd_last.outcome = "ok"
                       /\ rd_pos = base + ToNat(rd_last.arg)
            /\ ~ fits => /\ rd_last.outcome = "out_of_range"
                         /\ rd_last.got = NoValue
                         /\ rd_pos = rd_last.pre

\* C7: the value returned for j is floor((j*1000 + 30) / 60) over the
\* integers, and the arguments 10 and 6 give 167 and 100.
C7_JiffiesExact ==
    /\ jf_out # NoValue => Widen(jf_out.value) = ExactMs(jf_in)
    /\ jiffies_to_ms(U32(10)) = U32(167)
    /\ jiffies_to_ms(U32(6)) = U32(100)

-----------------------------------------------------------------------------
(***************************************************************************)
(* Properties of IcoCurDecoder::decode_all                                 *)
(***************************************************************************)
HeaderPasses(data) ==
    /\ data.len >= HeaderBytes
    /\ data.header.reserved = 0
    /\ data.header.type \in {1, 2}
    /\ data.count >= 1
    /\ data.len >= HeaderBytes + data.count * SlotBytes

\* C1: for a buffer that passes header validation and whose N entries all lie
\* inside the buffer, decode_all returns N images, the i-th being the decode
\* of directory entry i.
C1_DecodeAllEveryEntry ==
    ( /\ ico_res.kind = "result"
      /\ HeaderPasses(ico)
      /\ \A i \in 1..ico.count : RangeInside(ico.dir[i], ico.len) )
    => /\ ico_res.status = "ok"
       /\ ico_res.images =
              [i \in 1..ico.count |-> DecodeEntry(ico.dir[i], ico.header.type = 2)]

\* C4: decode_all fails, before any image is decoded, when the buffer is too
\* short for a header, reserved is not 0, the type is neither 1 nor 2, the
\* count is 0, or the buffer is shorter than 6 + count*16; and no header or
\* directory read goes beyond the end of the buffer.
C4_HeaderValidation ==
    ico_res.kind = "result" =>
        /\ ~ HeaderPasses(ico) => /\ ico_res.status = "error"
                                  /\ ico_res.decoded = 0
                                  /\ ico_res.images = <<>>
                                  /\ ico_res.entriesRead = 0
        /\ ico_res.readEnd <= ico.len

\* C4 witness: a well-formed header whose directory does not fit was rejected
C4_Witness ==
    /\ ico_res.kind = "result"
    /\ ico.header = [reserved |-> 0, type |-> 2]
    /\ ico.count >= 1
    /\ ico.len < HeaderBytes + ico.count * SlotBytes
    /\ ico_res.error = "ICO/CUR: File too small for directory"

-----------------------------------------------------------------------------
(***************************************************************************)
(* Properties of AniParser, Animation and process_ani_file                 *)
(***************************************************************************)
\* the chunks of the file with a given fourcc, in file order
FileChunks(fourcc) == SelectSeq(ani.chunks, LAMBDA c : c.fourcc = fourcc)

HasFram == \E i \in 1..Len(ani.chunks) : IsFram(ani.chunks[i])

Acon == ani.kind = "ani" /\ ani.valid /\ ani.form_type = "ACON"

\* the icons of the file's LIST fram, in file order
FileIcons ==
    LET f == SelectSeq(ani.chunks, IsFram)
    IN  IF f = <<>> THEN <<>>
        ELSE SelectSeq(f[1].sub, LAMBDA c : c.fourcc = "icon")

C5_ShortSeqFallback ==
    ( /\ call.kind = "call"
      /\ call.fn = "get_step_frame"
      /\ FileChunks("seq ") # <<>>
      /\ Len(anim.sequence) <= call.arg
      /\ call.arg < anim.num_steps )
    => /\ ~ call.res.oob
       /\ call.arg < Len(anim.frames) =>
             call.res.kind = "frame" /\ call.res.index = call.arg
       /\ call.arg >= Len(anim.frames) =>
             /\ call.res.kind = "error"
             /\ call.res.error = "Animation frame index out of range"

\* the rate entries of the file (none when there is no rate chunk)
FileRates ==
    IF FileChunks("rate") = <<>> THEN <<>> ELSE FileChunks("rate")[1].words

\* the frame index of step s: the sequence entry, else the step itself
FrameOf(a, s) ==
    IF s < Len(a.sequence) THEN a.sequence[s + 1] ELSE s

\* C6: after a successful parse, a step s whose frame no other step uses has
\* the delay jiffies_to_ms(rate[s]) if the rate chunk has an entry s and
\* jiffies_to_ms(display_rate) otherwise, with and without a seq chunk.
\* (Stated for files whose sequence is absent or covers every step.)
C6_StepDelay ==
    ( /\ call.kind = "call"
      /\ call.fn = "get_step_delay_ms"
      /\ call.arg < anim.num_steps
      /\ Len(anim.sequence) \in {0, anim.num_steps}
      /\ \A t \in 0..(anim.num_steps - 1) : FrameOf(anim, t) < Len(anim.frames)
      /\ \A t \in 0..(anim.num_steps - 1) :
            t # call.arg => FrameOf(anim, t) # FrameOf(anim, call.arg) )
    => /\ call.res.kind = "delay"
       /\ call.res.value =
             IF call.arg < Len(FileRates) THEN ms(FileRates[call.arg + 1])
             ELSE ms(anim.display_rate)

\* the anih words of the file: frame count, step count, display rate
AnihWord(n) == FileChunks("anih")[1].words[n]

\* C8: a parsed Animation has num_steps >= 1 and display_rate >= 1; a step
\* count of 0 became anih's frame count and a display rate of 0 became 10.
C8_Defaults ==
    anim.kind = "animation" =>
        /\ anim.num_steps >= 1
        /\ anim.display_rate >= 1
        /\ anim.num_steps = IF AnihWord(3) = 0 THEN AnihWord(2) ELSE AnihWord(3)
        /\ anim.display_rate = IF AnihWord(8) = 0 THEN 10 ELSE AnihWord(8)

\* C8 witness: a parsed Animation of a file whose anih has 0 steps and rate 0
C8_Witness ==
    /\ anim.kind = "animation"
    /\ AnihWord(3) = 0
    /\ AnihWord(8) = 0
    /\ anim.num_steps = AnihWord(2)

RECURSIVE SumDelays(_, _)
\* the sum of the delays of the frames of steps 0..n-1
SumDelays(a, n) ==
    IF n = 0 THEN 0
    ELSE SumDelays(a, n - 1) + a.frames[FrameOf(a, n - 1) + 1].delay_ms

\* the file of the scenario: 3 frames, 3 steps, no rate, no seq, default rate
ThreeFrames ==
    /\ ani.kind = "ani"
    /\ ani.chunks = <<AnihChunk(36, 3, 3, 0), FramList(3)>>

\* C9: total_duration_ms() is the sum over the steps 0..num_steps-1 of the
\* delay of the step's frame; it is 501 for 3 frames, 3 steps, no rate, no seq.
C9_TotalDuration ==
    ( /\ call.kind = "call"
      /\ call.fn = "total_duration_ms"
      /\ \A s \in 0..(anim.num_steps - 1) : FrameOf(anim, s) < Len(anim.frames) )
    => /\ call.res.kind = "total"
       /\ call.res.value = SumDelays(anim, anim.num_steps)
       /\ ThreeFrames => call.res.value = 501

\* C10: when the icons found differ in number from anih.num_frames and there
\* is at least one, parse returns exactly the icons found, in file order, and
\* process_ani_file converts the file.  (Stated for files without a seq chunk
\* whose step count is within the declared frame count, exported with All.)
C10_CountMismatch ==
    ( /\ call.kind = "call"
      /\ call.fn = "process_ani_file"
      /\ call.arg[1] = "All"
      /\ Acon
      /\ Len(FileChunks("anih")) = 1
      /\ FileChunks("anih")[1].size >= 36
      /\ AnihWord(2) >= 1
      /\ AnihWord(3) <= AnihWord(2)
      /\ FileChunks("seq ") = <<>>
      /\ Len(FileIcons) >= 1
      /\ Len(FileIcons) # AnihWord(2) )
    => /\ anim.kind = "animation"
       /\ [i \in 1..Len(anim.frames) |-> anim.frames[i].icon_data]
             = [i \in 1..Len(FileIcons) |-> FileIcons[i].icon]
       /\ call.res.kind = "converted"

-----------------------------------------------------------------------------
(***************************************************************************)
(* Properties of process_cur_file and of the exported sizes                *)
(***************************************************************************)
CurCall == call.kind = "call" /\ call.fn = "process_cur_file"

\* the images stored in the file, in directory order
StoredImages == [i \in 1..ico.count |-> DecodeEntry(ico.dir[i], TRUE)]

LargestStored ==
    Max({nominal_size(StoredImages[i]) : i \in 1..Len(StoredImages)})

\* C11: with filter Max a CUR file whose directory lists the nominal sizes
\* 16, 32, 48 in that order converts to exactly one image, the image of
\* directory entry 0.
C11_MaxIsEntryZero ==
    ( /\ CurCall
      /\ call.arg[1] = "Max"
      /\ [i \in 1..Len(StoredImages) |-> nominal_size(StoredImages[i])]
            = <<16, 32, 48>> )
    => /\ call.res.kind = "converted"
       /\ call.res.images = <<StoredImages[1]>>

\* C12: with size mode max every exported image has the largest nominal
\* size among the images stored in the file.
C12_MaxIsLargest ==
    (CurCall /\ call.arg[1] = "Max")
    => /\ call.res.kind = "converted"
       /\ \A k \in 1..Len(call.res.images) :
             nominal_size(call.res.images[k]) = LargestStored

\* the images decode_all hands to process_cur_file
DecodedImages == (CHOOSE d \in decode_all(ico) : d.status = "ok").images

\* the distinct values of a list, in order of first occurrence
FirstOccurrences(list) ==
    LET keep(i) == \A j \in 1..(i - 1) : list[j] # list[i]
        rank(i) == Cardinality({j \in 1..i : keep(j)})
        n == Cardinality({i \in 1..Len(list) : keep(i)})
    IN  [k \in 1..n |->
            list[CHOOSE i \in 1..Len(list) : keep(i) /\ rank(i) = k]]

\* the lowest index (from 1) of the images whose nominal size is closest to t
ClosestTo(images, t) ==
    CHOOSE i \in 1..Len(images) :
        /\ \A j \in 1..Len(images) :
              AbsDiff(nominal_size(images[i]), t)
                  <= AbsDiff(nominal_size(images[j]), t)
        /\ \A j \in 1..(i - 1) :
              AbsDiff(nominal_size(images[j]), t)
                  > AbsDiff(nominal_size(images[i]), t)

\* the output for target t: the first decoded image of nominal size t,
\* unchanged, else the rescale to t of the closest decoded image
OutputFor(images, t, out) ==
    LET same == {i \in 1..Len(images) : nominal_size(images[i]) = t}
    IN  /\ nominal_size(out) = t
        /\ same # {} => out = images[CHOOSE i \in same : \A j \in same : i <= j]
        /\ same = {} =>
              out.pixels = <<"rescaled", images[ClosestTo(images, t)].pixels, t>>

\* one output per distinct target, in order of first occurrence
OnePerTarget ==
    /\ call.res.kind = "converted"
    /\ Len(call.res.images) = Len(FirstOccurrences(call.arg[2]))
    /\ \A k \in 1..Len(call.res.images) :
          OutputFor(DecodedImages, FirstOccurrences(call.arg[2])[k],
                    call.res.images[k])

C14_SameDimensions ==
    ( /\ call.kind = "call"
      /\ call.fn = "process_ani_file"
      /\ call.res.kind = "converted" )
    => \A k \in 1..Len(call.res.images) : \A m \in 1..Len(call.res.images) :
          (k - 1) \div anim.num_steps = (m - 1) \div anim.num_steps
          => /\ call.res.images[k].width = call.res.images[m].width
             /\ call.res.images[k].height = call.res.images[m].height

\* C15: process_ani_file and process_cur_file never return an empty image
\* list; with zero frames or zero sizes the call fails with an error.
C15_NeverEmpty ==
    (call.kind = "call" /\ call.fn \in {"process_cur_file", "process_ani_file"})
    => /\ call.res.kind \in {"converted", "error", "crash"}
       /\ call.res.kind = "converted" => call.res.images # <<>>

-----------------------------------------------------------------------------
(***************************************************************************)
(* Properties of the conversion loop                                       *)
(***************************************************************************)
\* the mappings up to index n that failed
Failed(n) == {i \in 1..n : run.mappings[i] # "ok"}

\* the indices 1..n in order
UpTo(n) == [i \in 1..n |-> i]

-----------------------------------------------------------------------------
(***************************************************************************)
(* Properties of InfParser                                                 *)
(***************************************************************************)
\* the values the Wreg lines give a role, in processing order
WregValues(role) ==
    LET e == SelectSeq(inf.entries,
                 LAMBDA x : /\ x.subkey = "control panel\\cursors"
                            /\ x.value_name # ""
                            /\ win_key_to_role(x.value_name) = role)
    IN  [i \in 1..Len(e) |-> expand_vars(e[i].data, inf.strings).value]

\* the slot (from 1) of a role in a scheme list
SlotOf(role) == CHOOSE i \in 1..Len(kSchemeSlots) : kSchemeSlots[i] = role

\* the values the scheme lists give a role, in processing order
SchemeValues(role) ==
    LET e == SelectSeq(inf.entries,
                 LAMBDA x : /\ x.subkey = "control panel\\cursors\\schemes"
                            /\ Len(x.paths) >= SlotOf(role)
                            /\ x.paths[SlotOf(role)] # <<>>)
    IN  [i \in 1..Len(e) |->
            expand_vars(e[i].paths[SlotOf(role)], inf.strings).value]

\* C17: the mapping of a role is the value of its first Wreg entry, whatever
\* the order of Wreg and scheme entries; a role without a Wreg entry gets the
\* value of the first scheme entry that names it.
C17_WregFirst ==
    inf_res.kind = "inf" =>
        \A role \in {"pointer", "help"} :
            /\ WregValues(role) # <<>> =>
                  /\ role \in DOMAIN inf_res.mappings
                  /\ inf_res.mappings[role] = WregValues(role)[1]
            /\ (WregValues(role) = <<>> /\ SchemeValues(role) # <<>>) =>
                  /\ role \in DOMAIN inf_res.mappings
                  /\ inf_res.mappings[role] = SchemeValues(role)[1]

\* C17 witness: a scheme list names pointer before a Wreg line gives it
\* another value, and the Wreg value is the mapping
C17_Witness ==
    /\ inf_res.kind = "inf"
    /\ Len(inf.entries) = 2
    /\ inf.entries[1].subkey = "control panel\\cursors\\schemes"
    /\ WregValues("pointer") # <<>>
    /\ SchemeValues("pointer") # <<>>
    /\ SchemeValues("pointer")[1] # WregValues("pointer")[1]
    /\ inf_res.mappings["pointer"] = WregValues("pointer")[1]

\* C18: when a mapped value still holds a %NAME% reference with a
\* non-numeric NAME that [Strings] does not define, the parse has not failed
\* and the warnings hold a warning that names the variable.
C18_UnresolvedWarned ==
    inf_res.kind = "inf" =>
        \A role \in DOMAIN inf_res.mappings :
            \A i \in 1..Len(inf_res.mappings[role]) :
                LET tok == inf_res.mappings[role][i] IN
                ( /\ tok.ref
                  /\ ~ IsNumeric(to_lower(tok.text))
                  /\ to_lower(tok.text) \notin DOMAIN inf.strings )
                => \E w \in 1..Len(inf_res.warnings) :
                      inf_res.warnings[w].name = to_lower(tok.text)

-----------------------------------------------------------------------------
(***************************************************************************)
(* Properties of RiffReader::iterate_chunks                                *)
(***************************************************************************)
Walking == walk.kind = "walk"

\* the chunk handed to the callback last
LastCall == walk.calls[Len(walk.calls)]

\* o + 8 + n for the header offset o and the declared size n of a chunk
DataEnd(c) == WAdd(U64(c.at + 8), ToSize(c.size))

\* C19: after a chunk with header at offset o and declared size n the next
\* chunk header is parsed at o + 8 + n + (n mod 2); the padding byte is not
\* part of the chunk's data.
C19_NextOffset ==
    (Walking /\ walk.calls # <<>>) =>
        /\ walk.offset = WAdd(DataEnd(LastCall), U64(LastCall.size[1] % 2))
        /\ ~ WGreater(U64(LastCall.data_offset + LastCall.data_size),
                      DataEnd(LastCall))

\* C20: the callback is invoked once per chunk in file order; the walk stops
\* only when fewer than 8 bytes remain at the next chunk offset or when the
\* callback returned false, and the callback is not invoked after it
\* returned false.
C20_WalkStops ==
    Walking =>
        /\ \A i \in 1..Len(walk.calls) : \A j \in 1..Len(walk.calls) :
              i < j => walk.calls[i].at < walk.calls[j].at
        /\ walk.stopped =>
              \/ ~ walk.returned
              \/ WGreater(WAdd(walk.offset, U64(8)), U64(Len(riff)))
        /\ ~ walk.returned => walk.stopped

-----------------------------------------------------------------------------
(***************************************************************************)
(* Further properties of AniParser and process_ani_file                    *)
(***************************************************************************)
\* the steps the sequence maps to frame f and that have a rate entry
RatedSteps(a, f) ==
    { s \in 0..(a.num_steps - 1) :
        /\ s < Len(FileRates)
        /\ s < Len(a.sequence)
        /\ a.sequence[s + 1] = f }

\* C21: when the sequence maps several steps that have rate entries to one
\* frame, the frame's delay after the parse is jiffies_to_ms(rate[s*]) for the
\* largest such step s*, and get_step_delay_ms returns it for every step
\* mapped to the frame.
C21_LastWriteWins ==
    anim.kind = "animation" =>
        \A f \in 0..(Len(anim.frames) - 1) :
            Cardinality(RatedSteps(anim, f)) >= 2 =>
                LET last == ms(FileRates[Max(RatedSteps(anim, f)) + 1])
                IN  /\ anim.frames[f + 1].delay_ms = last
                    /\ ( /\ call.kind = "call"
                         /\ call.fn = "get_step_delay_ms"
                         /\ call.arg \in RatedSteps(anim, f) )
                       => /\ call.res.kind = "delay"
                          /\ call.res.value = last

\* the jiffy values of the file that are not zero, and the default
NonZeroJiffies ==
    {DEFAULT_JIFFIES}
        \cup { FileRates[i] : i \in {j \in 1..Len(FileRates) : FileRates[j] # 0} }
        \cup (IF AnihWord(8) # 0 THEN {AnihWord(8)} ELSE {})

\* C22: no frame receives a delay computed from 0 jiffies: after a parse
\* every frame's delay is jiffies_to_ms of a non-zero jiffy value of the file
\* or of the default of 10 jiffies.
C22_NoZeroJiffies ==
    anim.kind = "animation" =>
        \A i \in 1..Len(anim.frames) :
            anim.frames[i].delay_ms \in { ms(j) : j \in NonZeroJiffies }

\* C27: while applying delays parse_impl reads sequence[step] only for
\* step < sequence.size(), for every length of the rate and seq chunks.
C27_SequenceReads ==
    /\ anim.kind # "crash"
    /\ anim.kind = "animation" => ~ anim.oob

\* the number of sizes process_ani_file exports for a filter: one per distinct
\* target, else one per image stored in a frame
ExportedSizes(f) ==
    IF f[1] = "Specific" THEN Cardinality({ f[2][i] : i \in 1..Len(f[2]) })
    ELSE 1

\* C29: on success process_ani_file returns image and delay lists of length
\* K * S (K exported sizes, S = num_steps), grouped by size with the S steps
\* of a group in playback order; the delay at k*S + s is the delay of step s.
C29_GroupedBySize ==
    ( /\ call.kind = "call"
      /\ call.fn = "process_ani_file"
      /\ call.res.kind = "converted" )
    => LET S == anim.num_steps
           K == ExportedSizes(call.arg)
       IN  /\ Len(call.res.images) = K * S
           /\ Len(call.res.delays) = K * S
           /\ \A k \in 0..(K - 1) : \A s \in 0..(S - 1) :
                 /\ FrameOf(anim, s) < Len(anim.frames)
                 /\ call.res.delays[k * S + s + 1] =
                        anim.frames[FrameOf(anim, s) + 1].delay_ms
                 /\ call.arg[1] # "Specific" =>
                        call.res.images[k * S + s + 1].hotspot_y =
                            anim.frames[FrameOf(anim, s) + 1].icon_data

-----------------------------------------------------------------------------
(***************************************************************************)
(* Further properties of decode_all and iterate_chunks                     *)
(***************************************************************************)
\* the directory entry decode_all decodes
BestEntry == ico.dir[select_best_image(SubSeq(ico.dir, 1, ico.count)) + 1]

\* C28: decode_all takes the byte range of an entry only when the true sum
\* offset + size is within the buffer; otherwise it fails with the 'extends
\* beyond file' error and forms no sub-range outside the buffer.
C28_RangeChecked ==
    ( /\ ico_res.kind = "result"
      /\ HeaderPasses(ico)
      /\ ~ RangeInside(BestEntry, ico.len) )
    => /\ ico_res.status = "error"
       /\ ico_res.error = "ICO/CUR: Image data extends beyond file"

\* C30: every iteration of iterate_chunks stops the walk or moves the offset
\* forward by at least 8 bytes, so the callback is invoked at most
\* floor(length / 8) times.
C30_BoundedCalls ==
    Walking =>
        /\ Len(walk.calls) <= Len(riff) \div 8
        /\ walk.calls # <<>> =>
              ~ WLess(walk.offset, U64(LastCall.at + 8))

-----------------------------------------------------------------------------
(***************************************************************************)
(* Properties of rescale_cursor                                            *)
(***************************************************************************)
\* C26: for a source of width >= 1 and height >= 1 and a target >= 1,
\* rescale_cursor returns an image with max(width, height) = target, a pixel
\* buffer of width * height * 4 bytes and a hotspot inside the image; when
\* the target is the source's nominal size it returns the source.
C26_RescaleGeometry ==
    (scale_res.kind = "call" /\ scale.target_size >= 1) =>
        LET out == scale_res.res
        IN  /\ nominal_size(out) = scale.target_size
            /\ out.pixel_bytes = out.width * out.height * 4
            /\ out.hotspot_x <= out.width - 1
            /\ out.hotspot_y <= out.height - 1
            /\ scale.target_size = nominal_size(scale.src) => out = scale.src

-----------------------------------------------------------------------------
(***************************************************************************)
(* Properties of IcoCurDecoder::decode_bmp.  The layout a payload declares *)
(* is computed here without wraparound.                                    *)
(***************************************************************************)
\* bytes of a stored row of w pixels at bpp bits: ((w * bpp + 31) / 32) * 4
StoredRowBytes(w, bpp) == WMul(WDiv(WAdd(WMul(U64(w), bpp), U64(31)), 32), 4)

\* where stored pixel row r and stored mask row r begin
StoredRow(d, r) ==
    WAdd(U64(pixel_offset(d)), WMul(StoredRowBytes(actual_width(d), d.bpp), r))

StoredMaskRow(d, r) ==
    WAdd(StoredRow(d, actual_height(d)),
         WMul(StoredRowBytes(actual_width(d), 1), r))

\* the payload holds every pixel row and every mask row it declares
Complete(d) == ~ WLess(U64(d.len), StoredMaskRow(d, actual_height(d)))

\* the first and the last byte of the colour of pixel (x, y)
ColourFirst(d, x, y) ==
    WAdd(StoredRow(d, src_y(d, y)), U64((x * (d.bpp \div 4)) \div 2))

ColourLast(d, x, y) ==
    WAdd(ColourFirst(d, x, y), U64(IF d.bpp >= 16 THEN (d.bpp \div 8) - 1 ELSE 0))

\* the AND-mask bit of pixel (x, y)
MaskBit(d, x, y) ==
    BitSet(ByteAt(d, ToNat(WAdd(StoredMaskRow(d, src_y(d, y)), U64(x \div 8)))), x)

\* the stored (R, G, B, A) of pixel (x, y) of a 32-bpp image
StoredRgba(d, x, y) ==
    LET at == ToNat(ColourFirst(d, x, y))
    IN  <<ByteAt(d, at + 2), ByteAt(d, at + 1), ByteAt(d, at), ByteAt(d, at + 3)>>

Decoded == bmp_res.kind \in {"image", "error", "crash"}

\* C23: in an uncompressed image with complete pixel and mask data, for bpp
\* 1, 4, 8 or 24 a pixel whose AND-mask bit is 1 has alpha 0 and a pixel whose
\* mask bit is 0 has alpha 255; for bpp 32 the alpha is the stored alpha byte.
C23_MaskAlpha ==
    ( /\ Decoded
      /\ bmp.len >= InfoHeaderBytes
      /\ bmp.compression = 0
      /\ bmp.bpp \in {1, 4, 8, 24, 32}
      /\ Complete(bmp) )
    => /\ bmp_res.kind = "image"
       /\ \A c \in Probes(bmp) :
             bmp_res.pixels[c][4] =
                 IF bmp.bpp = 32 THEN StoredRgba(bmp, c[1], c[2])[4]
                 ELSE IF MaskBit(bmp, c[1], c[2]) THEN 0 ELSE 255

\* C24: a payload with a complete header and no compression that is shorter
\* than its geometry requires is decoded without a failure and without a
\* read at an index >= its length, and every pixel whose colour bytes lie
\* outside the payload is (0, 0, 0, 0).
C24_Truncated ==
    ( /\ Decoded
      /\ bmp.len >= InfoHeaderBytes
      /\ bmp.compression = 0
      /\ ~ Complete(bmp) )
    => /\ bmp_res.kind = "image"
       /\ ~ bmp_res.oob
       /\ \A c \in Probes(bmp) :
             ~ WLess(ColourLast(bmp, c[1], c[2]), U64(bmp.len))
                 => bmp_res.pixels[c] = Zero

\* C25: decoding an uncompressed 32-bpp CUR image with complete data gives
\* the declared width and half the stored height, and pixel (x, y) is the
\* stored R, G, B, A of column x in stored row height-1-y (row y top-down).
C25_Lossless ==
    ( /\ Decoded
      /\ bmp.len >= InfoHeaderBytes
      /\ bmp.compression = 0
      /\ bmp.is_cursor
      /\ bmp.bpp = 32
      /\ bmp.width >= 1
      /\ bmp.height >= 2
      /\ Complete(bmp) )
    => /\ bmp_res.kind = "image"
       /\ bmp_res.width = bmp.width
       /\ bmp_res.height = bmp.height \div 2
       /\ \A c \in Probes(bmp) :
             bmp_res.pixels[c] = StoredRgba(bmp, c[1], c[2])

====
